---- MODULE Spec2Model ----
(***************************************************************************)
(* UnifiedAI: the generateText tool loop of the three provider adapters    *)
(* (OpenAIModel, GoogleModel, ClaudeModel).                                *)
(*                                                                         *)
(* One run of generateText is modelled from the call to its return.  The   *)
(* JavaScript run is single threaded: it only gives up control at an       *)
(* await (the provider call, a tool's execute).  Every action below runs   *)
(* the code from one await to the next, and the caller's stop signal can   *)
(* be set or cleared between any two of them.                              *)
(*                                                                         *)
(* The run starts from a non-empty conversation that has already been      *)
(* serialized; the provider's answers, the tools' results and the tools'   *)
(* forceStop decisions are inputs.                                         *)
(***************************************************************************)
EXTENDS Integers, Sequences, FiniteSets, TLC

(* ------------------------------- bounds -------------------------------- *)

\* largest explicit maxToolRoundtrips option that is tried
MaxRoundtrips == 1

\* largest number of parts (text blocks, tool calls) in one provider response
MaxParts == 2

\* largest MaxRetries option given to runWithTimeoutAndRetry
MaxRetriesTried == 2

\* longest conversation serialized
MaxMessages == 3

\* most calls of Signal.waitUntilReset followed
MaxWaits == 3

\* largest number of nodes of a tool's parameter schema
MaxNodes == 4

\* most provider calls rejected with status 429 while runs share rateLimitInfo
MaxRateLimited == 4

\* provider responses followed in a run without a maxToolRoundtrips option
MaxCalls == MaxRoundtrips + 1

(* ------------------------- constants of the code ------------------------ *)

\* `options.maxToolRoundtrips || 5`
DefaultRoundtrips == 5

Adapters == {"openai", "google", "claude"}

\* maxToolRoundtrips when the option is omitted
Undefined == 0 - 1

\* the names in options.tools, and the names the model may ask for
Registry == {"get_weather"}
ToolNames == {"get_weather", "no_such_tool"}

\* the text of the k-th text part of a response; the adapters never look into
\* a text, they only test it for emptiness, so the texts of one response are
\* taken pairwise different and not empty
TextAt(k) == "t" \o ToString(k)

\* what a registered tool's execute returns
ToolValues == {"sunny"}

\* call identifiers: the provider's (OpenAI, Claude) or generateToolCallID's
CallId(n) == "call_" \o ToString(n)

NullContent == "<null>"
EmptyObject == "<{}>"
ToolNotFound == "Tool not found"

(* ------------------------------ JSON ------------------------------------ *)

JSONValues == ToolValues \cup {EmptyObject}

\* JSON.stringify on the values of the model
JSONStringify(v) ==
    CASE v = "sunny" -> "\"sunny\""
      [] v = EmptyObject -> "{}"

\* JSON.parse, the inverse of JSONStringify on its range
JSONParse(s) == CHOOSE v \in JSONValues : JSONStringify(v) = s

(* -------------------------- provider responses -------------------------- *)

SeqsUpTo(S, n) == UNION {[1..k -> S] : k \in 0..n}

TextPart(t) == [kind |-> "text", text |-> t]
CallPart(n) == [kind |-> "call", name |-> n]

PartKinds == {"text"} \cup ToolNames

PartsOf(kinds) ==
    [k \in 1..Len(kinds) |->
        IF kinds[k] = "text"
        THEN TextPart(TextAt(Cardinality({j \in 1..k : kinds[j] = "text"})))
        ELSE CallPart(kinds[k])]

\* content of a Claude message / parts of a Google candidate
PartLists == {PartsOf(kinds) : kinds \in SeqsUpTo(PartKinds, MaxParts)}

\* choices[0].message of an OpenAI completion
OpenAIMessages ==
    [content : {NullContent, TextAt(1)}, tool_calls : SeqsUpTo(ToolNames, MaxParts)]

VARIABLES
    adapter,            \* which model class runs
    maxToolRoundtrips,  \* options.maxToolRoundtrips (Undefined when omitted)
    signal,             \* Signal._value of options.stopSignal
    pc,                 \* idle, calling, executing, done, raised
    roundtrips,         \* roundtrips (OpenAI, Google), rounds (Claude)
    addedMessages,      \* the adapter's wire-format addedMessages
    pending,            \* tool calls of the current response not yet finished
    forceStop,          \* the loop's forceStop flag
    runAgain,           \* Claude's runAgain flag
    nextId,             \* next fresh call identifier
    functionCallIDs,    \* Google: Map from a message of addedMessages to its id
    toolNameMap,        \* Claude: Map from tool_use id to tool name
    result,             \* the generateTextReturn value, once returned
    providerCalls,      \* history: provider calls issued in this run
    stopRequested,      \* history: some tool of this run set forceStop
    signalAtEntry,      \* history: the signal was set at the call and not cleared since
    signalAtIssue,      \* history: signal value when the last call was issued
    responses,          \* history: the shape of each provider response, in order
    callsRequested,     \* history: tool calls the responses asked for
    retryCount,         \* Claude: retryCount of the 429 retry loop
    callFailed,         \* history: a provider call of this run failed fatally
    pacingChecks,       \* history: calls of ClaudeModel.checkRateLimits
    textMessageGenerated, \* options.textMessageGenerated is passed
    reporting,          \* texts of the current response whose callback has not returned
    callbacks,          \* history: the text given to each textMessageGenerated call
    textsReturned,      \* history: the assistant texts of the provider responses
    started,            \* history: the tool executions started, by place of the call
    malformed,          \* history: a provider response lacked what the adapter reads
    sendList,           \* what the run has pushed to the provider's message list
    requests,           \* history: sendList as each provider call was issued
    \* ---- runWithTimeoutAndRetry ----
    MaxRetries,         \* options.MaxRetries (Undefined when omitted)
    RequestTimeoutMS,   \* options.RequestTimeoutMS
    RetryDelayMS,       \* options.RetryDelayMS
    RetryBackoffFactor, \* options.RetryBackoffFactor
    shouldRetryError,   \* the retry predicate passed
    getRetryDelayMs,    \* the delay override passed
    phase,              \* idle, awaiting, sleeping, returned, thrown
    attempt,            \* attempt
    lastError,          \* lastError
    timeoutId,          \* TimeoutPromise.timeoutId is set (timer armed)
    outstanding,        \* invocations of operation that have not settled
    outcome,            \* the value returned or the error thrown to the caller
    invocations,        \* history: invocations of operation
    waits,              \* history: the delay computed before each retry
    outcomes,           \* history: how each attempt ended
    RetryNotified,      \* options.RetryNotified is passed
    notifications,      \* history: the arguments of each RetryNotified call
    \* ---- tool translation ----
    translator,         \* the adapter whose convertTool... method is called
    parameters,         \* zodTool.parameters._def
    translation,        \* the schema returned, or the error raised
    \* ---- serialization of a conversation ----
    codec,              \* the adapter whose converters are applied
    oSeries,            \* OpenAI: this.modelID.startsWith('o')
    conversation,       \* options.messages
    restored,           \* the messages converted back, or the error raised
    payload,            \* what generateText made of options.messages, or the error
    \* ---- Signal ----
    sigValue,           \* Signal._value
    sigResolver,        \* Signal._resolver: the promise it resolves, 0 when undefined
    promises,           \* the promises waitUntilReset returned, in order
    lastCall,           \* history: the method called last
    isSetReturned,      \* what the last isSet() returned
    \* ---- ClaudeModel.rateLimitInfo ----
    rateLimitInfo,      \* the static ClaudeModel.rateLimitInfo
    clock,              \* Date.now()
    claudeRuns,         \* the generateText calls that share rateLimitInfo
    rateLimited,        \* history: provider calls rejected with status 429
    lostUpdates         \* history: the values a wait-and-reset wrote over

\* the state of a generateText run
runVars == <<adapter, maxToolRoundtrips, signal, pc, roundtrips, addedMessages,
             pending, forceStop, runAgain, nextId, functionCallIDs, toolNameMap,
             result, providerCalls,
             stopRequested, signalAtEntry, signalAtIssue, responses,
             callsRequested, retryCount, callFailed, pacingChecks,
             textMessageGenerated, reporting, callbacks, textsReturned,
             started, malformed, sendList, requests>>

\* the state of the text callbacks of a run
reportVars == <<reporting, callbacks, textsReturned>>

\* the state of a runWithTimeoutAndRetry call
retryVars == <<MaxRetries, RequestTimeoutMS, RetryDelayMS, RetryBackoffFactor,
               shouldRetryError, getRetryDelayMs, phase, attempt, lastError,
               timeoutId, outstanding, outcome, invocations, waits, outcomes,
               RetryNotified, notifications>>

\* the state of a tool translation
schemaVars == <<translator, parameters, translation>>

\* the state of a conversion of messages
convVars == <<codec, oSeries, conversation, restored, payload>>

\* the state of a Signal and of its waiters
signalVars == <<sigValue, sigResolver, promises, lastCall, isSetReturned>>

\* the shared rate-limit state and the runs that use it
pacingVars == <<rateLimitInfo, clock, claudeRuns, rateLimited, lostUpdates>>

\* the state outside a generateText run
besideRun == <<retryVars, schemaVars, convVars, signalVars, pacingVars>>

\* the state outside a runWithTimeoutAndRetry call
besideRetry == <<runVars, schemaVars, convVars, signalVars, pacingVars>>

\* the state outside a tool translation
besideSchema == <<runVars, retryVars, convVars, signalVars, pacingVars>>

\* the state outside a conversion of messages
besideConv == <<runVars, retryVars, schemaVars, signalVars, pacingVars>>

\* the state outside a Signal
besideSignal == <<runVars, retryVars, schemaVars, convVars, pacingVars>>

\* the state outside the shared rate-limit state
besidePacing == <<runVars, retryVars, schemaVars, convVars, signalVars>>

vars == <<runVars, retryVars, schemaVars, convVars, signalVars, pacingVars>>

NoResult == [addedMessages |-> <<>>, text |-> "<none>"]

\* `options.maxToolRoundtrips || 5`: 0 and undefined are both falsy
Budget == IF maxToolRoundtrips = Undefined \/ maxToolRoundtrips = 0
          THEN DefaultRoundtrips ELSE maxToolRoundtrips

\* the responses followed in a run: those of the calls within the budget the
\* options ask for; a call issued beyond it is recorded, its response is not
\* followed
Followed == IF maxToolRoundtrips = Undefined THEN MaxCalls
            ELSE maxToolRoundtrips + 1

\* no error, no value
Null == [kind |-> "null"]

\* no runWithTimeoutAndRetry call is under way
NoRetryCall ==
    /\ MaxRetries = Undefined
    /\ RequestTimeoutMS = Undefined
    /\ RetryDelayMS = Undefined
    /\ RetryBackoffFactor = Undefined
    /\ shouldRetryError = "default"
    /\ getRetryDelayMs = [passed |-> FALSE, returns |-> Undefined]
    /\ phase = "idle"
    /\ attempt = 0
    /\ lastError = Null
    /\ timeoutId = FALSE
    /\ outstanding = 0
    /\ outcome = Null
    /\ invocations = 0
    /\ waits = <<>>
    /\ outcomes = <<>>
    /\ RetryNotified = FALSE
    /\ notifications = <<>>

\* no tool is being translated
NoTranslation ==
    /\ translator = "none"
    /\ parameters = [typeName |-> "ZodObject", shape |-> <<>>]
    /\ translation = [done |-> FALSE]

\* no conversation is being converted
NoConversion ==
    /\ codec = "none"
    /\ oSeries = FALSE
    /\ conversation = <<>>
    /\ restored = [done |-> FALSE]
    /\ payload = [done |-> FALSE]

\* a Signal nobody has called yet
NoSignalCall ==
    /\ sigValue = FALSE
    /\ sigResolver = 0
    /\ promises = <<>>
    /\ lastCall = "none"
    /\ isSetReturned = FALSE

\* rateLimitInfo as the class is loaded, and no run that uses it
NoPacing ==
    /\ rateLimitInfo = [remainingTokens |-> 20000, resetTime |-> 0]
    /\ clock = 1
    /\ claudeRuns = <<>>
    /\ rateLimited = 0
    /\ lostUpdates = {}

\* the options and the state of a generateText run at its call
InitRun(adapters, budgets, signals, hooks) ==
    /\ adapter \in adapters
    /\ maxToolRoundtrips \in budgets
    /\ signal \in signals
    /\ pc = "idle"
    /\ roundtrips = 0
    /\ addedMessages = <<>>
    /\ pending = <<>>
    /\ forceStop = FALSE
    /\ runAgain = TRUE
    /\ nextId = 1
    /\ functionCallIDs = <<>>
    /\ toolNameMap = <<>>
    /\ result = NoResult
    /\ providerCalls = 0
    /\ stopRequested = FALSE
    /\ signalAtEntry = FALSE
    /\ signalAtIssue = FALSE
    /\ responses = <<>>
    /\ callsRequested = 0
    /\ retryCount = 0
    /\ callFailed = FALSE
    /\ pacingChecks = 0
    /\ textMessageGenerated \in hooks
    /\ reporting = <<>>
    /\ callbacks = <<>>
    /\ textsReturned = <<>>
    /\ started = <<>>
    /\ malformed = FALSE

\* the provider's message list is left out of the run
NotFollowed == <<[role |-> "none"]>>

NoList ==
    /\ sendList = NotFollowed
    /\ requests = <<>>

\* no generateText run is under way
NoRun ==
    /\ InitRun({"openai"}, {Undefined}, {FALSE}, {FALSE})
    /\ NoList

Init ==
    /\ InitRun(Adapters, {Undefined} \cup (0..MaxRoundtrips), BOOLEAN, BOOLEAN)
    /\ NoList
    /\ NoRetryCall
    /\ NoTranslation
    /\ NoConversion
    /\ NoSignalCall
    /\ NoPacing

(* --------------------------- the stop signal ---------------------------- *)

\* Signal.set(), called by the owner of the signal at any time of the run
SignalSet ==
    /\ pc \notin {"done", "raised"}
    /\ signal' = TRUE
    /\ UNCHANGED <<adapter, maxToolRoundtrips, pc, roundtrips, addedMessages,
                   pending, forceStop, runAgain, nextId, functionCallIDs,
                   toolNameMap, result, providerCalls, stopRequested,
                   signalAtEntry, signalAtIssue, responses, callsRequested>>
    /\ UNCHANGED <<retryCount, callFailed, pacingChecks, textMessageGenerated,
                   malformed, besideRun>>
    /\ UNCHANGED <<reportVars, started>>
    /\ UNCHANGED <<sendList, requests>>

\* Signal.clear()
SignalClear ==
    /\ pc \notin {"done", "raised"}
    /\ signal' = FALSE
    /\ signalAtEntry' = FALSE
    /\ UNCHANGED <<adapter, maxToolRoundtrips, pc, roundtrips, addedMessages,
                   pending, forceStop, runAgain, nextId, functionCallIDs,
                   toolNameMap, result, providerCalls, stopRequested,
                   signalAtIssue, responses, callsRequested>>
    /\ UNCHANGED <<retryCount, callFailed, pacingChecks, textMessageGenerated,
                   malformed, besideRun>>
    /\ UNCHANGED <<reportVars, started>>
    /\ UNCHANGED <<sendList, requests>>

(* ------------------------ canonical (Base) messages --------------------- *)

BaseSystemMessage(t) == [kind |-> "system", role |-> "system", text |-> t]
BaseText(t) == [kind |-> "text", role |-> "assistant", text |-> t]
\* BaseImageMessage, BaseAudioMessage, BaseVideoMessage: `content[0].type` is
\* kind + "_url"
BaseMediaMessage(kind) == [kind |-> kind, role |-> "user"]
BaseToolCall(id, name) == [kind |-> "call", role |-> "assistant", id |-> id, name |-> name]
BaseToolResponse(id, name, response) ==
    [kind |-> "result", role |-> "function", id |-> id, name |-> name,
     response |-> response]

(* ------------------------- leaving / staying in the loop ---------------- *)

\* the shape of a response: "call" for one call of a registered tool (and, in
\* OpenAI, any content, which the adapter drops), "text" for one text and
\* nothing else, "texts" for several texts and nothing else, "other" otherwise
Shape(texts, names) ==
    IF Len(names) = 1 /\ names[1] \in Registry /\ (texts = 0 \/ adapter = "openai")
    THEN "call"
    ELSE IF names = <<>> /\ texts = 1 THEN "text"
    ELSE IF names = <<>> /\ texts > 1 THEN "texts"
    ELSE "other"

\* history of the responses
Record(texts, names) ==
    /\ responses' = Append(responses, Shape(texts, names))
    /\ callsRequested' = callsRequested + Len(names)

\* `await provider...create(...)`: the call goes out and the run waits
IssueCall ==
    /\ pc' = "calling"
    /\ providerCalls' = providerCalls + 1
    /\ signalAtIssue' = signal
    /\ result' = result
    /\ started' = started

\* `return {addedMessages: ..., text: ...}`
Return(r) ==
    /\ pc' = "done"
    /\ result' = r
    /\ UNCHANGED <<providerCalls, signalAtIssue, started>>

\* variant: the executions are recorded as if the last call were started
AwaitToolLast(asked) ==
    /\ pc' = "executing"
    /\ started' = Append(started, asked)
    /\ UNCHANGED <<result, providerCalls, signalAtIssue>>

\* `await tool.execute(args, toolOptions)`: the run waits for the tool; of the
\* `asked` tool calls requested so far, those of pending' are not finished
AwaitTool(asked) ==
    /\ pc' = "executing"
    /\ started' = Append(started, asked - Len(pending') + 1)
    /\ UNCHANGED <<result, providerCalls, signalAtIssue>>

\* variant: the loop over the tool calls is left once a tool has set forceStop
RemainingUnlessStopped(calls, fs) == IF fs THEN <<>> ELSE calls

\* the tool calls the `for` loop still goes through after an execution: all
\* that are left, the loop has no exit on forceStop
Remaining(calls, fs) == calls

\* `await options.textMessageGenerated({role: 'assistant', text})`
AwaitCallback(text) ==
    /\ pc' = "reporting"
    /\ callbacks' = Append(callbacks, text)
    /\ UNCHANGED <<result, providerCalls, signalAtIssue, started>>

\* variant: the tool results are pushed to addedMessages only
PushedNone(before, after, roles) == <<>>

\* the messages of the given roles pushed to addedMessages in a step: the
\* adapter pushes the same object to the provider's message list
Pushed(before, after, roles) ==
    SelectSeq(SubSeq(after, Len(before) + 1, Len(after)), LAMBDA m : m.role \in roles)

\* the provider's message list after a step; `create({messages: ...})` sends
\* the list as it is when the call is issued
Sent(list) ==
    IF sendList = NotFollowed
    THEN UNCHANGED <<sendList, requests>>
    ELSE /\ sendList' = list
         /\ requests' = IF pc' = "calling" /\ providerCalls' = providerCalls + 1
                        THEN Append(requests, list) ELSE requests

\* the provider's message list after a step that pushes tool results only
SentResults(roles) == Sent(sendList \o Pushed(addedMessages, addedMessages', roles))

(* ================================ OpenAI ================================ *)

\* one-call assistant message pushed to addedMessages for each tool call
OpenAIToolCallMessage(call) == [role |-> "assistant", tool_calls |-> <<call>>]

\* variant: the tool message does not name the call it answers
OpenAIToolMessageNoId(id, toolResponse) ==
    [role |-> "tool", tool_call_id |-> "",
     content |-> IF toolResponse = NullContent THEN "{}" ELSE toolResponse]

\* toolResponseMessage: `content: toolResponse || '{}'`
OpenAIToolMessage(id, toolResponse) ==
    [role |-> "tool", tool_call_id |-> id,
     content |-> IF toolResponse = NullContent THEN "{}" ELSE toolResponse]

\* `{role: 'assistant', content: message.content}`
OpenAITextMessage(content) == [role |-> "assistant", content |-> content]

HasToolCalls(m) == "tool_calls" \in DOMAIN m

\* the tool name convertMessagesFromOpenAI finds for a tool message:
\* tool_calls[0] of the first assistant message holding that call id
OpenAIFindName(added, id) ==
    LET hits == {i \in 1..Len(added) :
                    /\ added[i].role = "assistant"
                    /\ HasToolCalls(added[i])
                    /\ \E k \in 1..Len(added[i].tool_calls) :
                           added[i].tool_calls[k].id = id}
    IN IF hits = {} THEN NullContent
       ELSE LET first == CHOOSE i \in hits : \A j \in hits : i <= j
            IN added[first].tool_calls[1].name

RECURSIVE OpenAIFromAt(_, _)
OpenAIFromAt(added, i) ==
    IF i > Len(added) THEN <<>>
    ELSE LET m == added[i]
             here ==
                 IF m.role = "developer"
                 THEN <<BaseSystemMessage(m.content)>>
                 ELSE IF m.role = "assistant" /\ ~HasToolCalls(m)
                 THEN <<BaseText(m.content)>>
                 ELSE IF HasToolCalls(m) /\ Len(m.tool_calls) > 0
                 THEN <<BaseToolCall(m.tool_calls[1].id, m.tool_calls[1].name)>>
                 ELSE IF m.role = "tool"
                 THEN IF OpenAIFindName(added, m.tool_call_id) = NullContent
                      THEN <<>>
                      ELSE <<BaseToolResponse(m.tool_call_id,
                                 OpenAIFindName(added, m.tool_call_id),
                                 JSONParse(m.content))>>
                 ELSE <<>>
         IN here \o OpenAIFromAt(added, i + 1)

convertMessagesFromOpenAI(added) == OpenAIFromAt(added, 1)

\* `text = addedMessages[last].content`, kept when it is a string
OpenAIText(added) ==
    IF Len(added) = 0 THEN ""
    ELSE LET last == added[Len(added)]
         IN IF "content" \in DOMAIN last /\ last.content # NullContent
            THEN last.content ELSE ""

OpenAIResult(added) ==
    [addedMessages |-> convertMessagesFromOpenAI(added), text |-> OpenAIText(added)]

\* the tool-call loop up to the next await: a call whose tool is not in
\* options.tools gets its (empty) tool message at once, a registered one has
\* its call message pushed and is then executed
RECURSIVE OpenAIDrain(_, _)
OpenAIDrain(added, calls) ==
    IF calls = <<>> THEN [added |-> added, rest |-> <<>>]
    ELSE LET call == Head(calls)
             withCall == Append(added, OpenAIToolCallMessage(call))
         IN IF call.name \in Registry
            THEN [added |-> withCall, rest |-> calls]
            ELSE OpenAIDrain(Append(withCall, OpenAIToolMessage(call.id, NullContent)),
                             Tail(calls))

\* `while (roundtrips <= (options.maxToolRoundtrips || 5))` and the stop check
OpenAILoopHead(rt, added) ==
    IF rt <= Budget /\ ~signal THEN IssueCall
    ELSE Return(OpenAIResult(added))

\* OpenAIAfterCalls without `if (forceStop) break`
OpenAIAfterCallsNoForceStop(added, fs) ==
    /\ roundtrips' = roundtrips + 1
    /\ OpenAILoopHead(roundtrips + 1, added)

\* variant: OpenAIAfterCalls without `roundtrips++`
OpenAIAfterCallsNoCount(added, fs) ==
    IF fs
    THEN /\ Return(OpenAIResult(added))
         /\ roundtrips' = roundtrips
    ELSE /\ roundtrips' = roundtrips
         /\ OpenAILoopHead(roundtrips, added)

\* after the for loop over message.tool_calls
OpenAIAfterCalls(added, fs) ==
    IF fs
    THEN /\ Return(OpenAIResult(added))
         /\ roundtrips' = roundtrips
    ELSE /\ roundtrips' = roundtrips + 1
         /\ OpenAILoopHead(roundtrips + 1, added)

\* generateText is called: conversion, then the first pass of the loop head
OpenAIGenerateText ==
    /\ adapter = "openai"
    /\ pc = "idle"
    /\ signalAtEntry' = signal
    /\ OpenAILoopHead(0, <<>>)
    /\ UNCHANGED <<adapter, maxToolRoundtrips, signal, roundtrips, addedMessages,
                   pending, forceStop, runAgain, nextId, functionCallIDs,
                   toolNameMap, stopRequested, responses, callsRequested>>
    /\ UNCHANGED <<retryCount, callFailed, pacingChecks, textMessageGenerated,
                   malformed, besideRun>>
    /\ UNCHANGED reportVars
    /\ SentResults({"tool"})

\* the provider call resolves with a completion; the content of a message
\* that has tool calls is not looked at
OpenAIResponse ==
    /\ adapter = "openai"
    /\ pc = "calling"
    /\ providerCalls <= Followed
    /\ \E message \in OpenAIMessages :
         LET n == Len(message.tool_calls)
             calls == [k \in 1..n |->
                          [id |-> CallId(nextId + k - 1), name |-> message.tool_calls[k]]]
         IN /\ Record(IF message.content = NullContent THEN 0 ELSE 1, message.tool_calls)
            /\ textsReturned' = IF message.content = NullContent THEN textsReturned
                                ELSE Append(textsReturned, message.content)
            /\ nextId' = nextId + n
            /\ IF n > 0
               THEN LET d == OpenAIDrain(addedMessages, calls)
                    IN /\ addedMessages' = d.added
                       /\ pending' = d.rest
                       /\ forceStop' = FALSE
                       /\ IF pending' # <<>>
                          THEN AwaitTool(callsRequested + n) /\ roundtrips' = roundtrips
                          ELSE OpenAIAfterCalls(addedMessages', FALSE)
                       /\ UNCHANGED <<reporting, callbacks>>
               ELSE /\ addedMessages' =
                            Append(addedMessages, OpenAITextMessage(message.content))
                    /\ UNCHANGED <<pending, forceStop, roundtrips>>
                    /\ IF textMessageGenerated
                       THEN /\ AwaitCallback(message.content)
                            /\ reporting' = <<message.content>>
                       ELSE /\ Return(OpenAIResult(addedMessages'))
                            /\ UNCHANGED <<reporting, callbacks>>
            /\ Sent(sendList
                    \o <<[role |-> "assistant", content |-> message.content,
                          tool_calls |-> calls]>>
                    \o Pushed(addedMessages, addedMessages', {"tool"}))
    /\ UNCHANGED <<adapter, maxToolRoundtrips, signal, runAgain, stopRequested,
                   signalAtEntry, functionCallIDs, toolNameMap>>
    /\ UNCHANGED <<retryCount, callFailed, pacingChecks, textMessageGenerated,
                   malformed, besideRun>>

\* textMessageGenerated has returned: `if (!runAgain) break`
OpenAITextReported ==
    /\ adapter = "openai"
    /\ pc = "reporting"
    /\ reporting' = <<>>
    /\ Return(OpenAIResult(addedMessages))
    /\ UNCHANGED <<adapter, maxToolRoundtrips, signal, roundtrips, addedMessages,
                   pending, forceStop, runAgain, nextId, functionCallIDs,
                   toolNameMap, stopRequested, signalAtEntry, responses,
                   callsRequested, callbacks, textsReturned>>
    /\ UNCHANGED <<retryCount, callFailed, pacingChecks, textMessageGenerated,
                   malformed, besideRun>>
    /\ SentResults({"tool"})

\* tool.execute resolves: its value and what it did to toolOptions.forceStop
OpenAIToolDone ==
    /\ adapter = "openai"
    /\ pc = "executing"
    /\ \E value \in ToolValues, setsForceStop \in BOOLEAN :
         LET fs == forceStop \/ setsForceStop
             withResult == Append(addedMessages,
                               OpenAIToolMessage(Head(pending).id, JSONStringify(value)))
         IN \E d \in {OpenAIDrain(withResult, Remaining(Tail(pending), fs))} :
            /\ forceStop' = fs
            /\ stopRequested' = (stopRequested \/ setsForceStop)
            /\ addedMessages' = d.added
            /\ pending' = d.rest
            /\ IF pending' # <<>>
               THEN AwaitTool(callsRequested) /\ roundtrips' = roundtrips
               ELSE OpenAIAfterCalls(addedMessages', fs)
    /\ UNCHANGED <<adapter, maxToolRoundtrips, signal, runAgain, nextId,
                   signalAtEntry, responses, callsRequested, functionCallIDs,
                   toolNameMap>>
    /\ UNCHANGED <<retryCount, callFailed, pacingChecks, textMessageGenerated,
                   malformed, besideRun>>
    /\ UNCHANGED reportVars
    /\ SentResults({"tool"})

(* ================================ Google ================================ *)

GoogleTextMessage(fullText) == [role |-> "model", parts |-> <<[text |-> fullText]>>]

GoogleToolCallMessage(name) ==
    [role |-> "model", parts |-> <<[functionCall |-> [name |-> name]]>>]

\* toolResponseMessage; toolResponse stays null when the tool is not registered
GoogleToolResponseMessage(name, toolResponse) ==
    [role |-> "function",
     parts |-> <<[functionResponse |->
                    [name |-> name,
                     response |-> [name |-> name, content |-> toolResponse]]]>>]

\* `toolCallIDs.get(message) || ''`, the Map being keyed by the message object,
\* here by its place in addedMessages
GoogleIdOf(ids, i) == IF i \in DOMAIN ids THEN ids[i] ELSE ""

RECURSIVE GoogleFromAt(_, _, _)
GoogleFromAt(ids, messages, i) ==
    IF i > Len(messages) THEN <<>>
    ELSE LET part == messages[i].parts[1]
             here ==
                 IF "text" \in DOMAIN part /\ part.text # ""
                 THEN <<[BaseText(part.text) EXCEPT
                            !.role = IF messages[i].role = "user" THEN "user"
                                     ELSE "assistant"]>>
                 ELSE IF "functionCall" \in DOMAIN part
                 THEN <<BaseToolCall(GoogleIdOf(ids, i), part.functionCall.name)>>
                 ELSE IF messages[i].role = "function"
                 THEN <<BaseToolResponse(GoogleIdOf(ids, i),
                            part.functionResponse.name,
                            IF part.functionResponse.response.content = NullContent
                            THEN EmptyObject
                            ELSE part.functionResponse.response.content)>>
                 ELSE <<>>
         IN here \o GoogleFromAt(ids, messages, i + 1)

convertMessagesFromGoogle(toolCallIDs, messages) == GoogleFromAt(toolCallIDs, messages, 1)

\* `text = lastMessage.parts?.[0]?.text || null`, returned as `text || ''`
GoogleText(added) ==
    IF Len(added) = 0 THEN ""
    ELSE LET part == added[Len(added)].parts[1]
         IN IF "text" \in DOMAIN part THEN part.text ELSE ""

GoogleResult(ids, added) ==
    [addedMessages |-> convertMessagesFromGoogle(ids, added), text |-> GoogleText(added)]

\* `textParts.map(part => part.text).join('')`
RECURSIVE JoinTexts(_)
JoinTexts(parts) ==
    IF parts = <<>> THEN ""
    ELSE (IF Head(parts).kind = "text" THEN Head(parts).text ELSE "")
         \o JoinTexts(Tail(parts))

\* GoogleResponseId with a second generateToolCallID() for the response
GoogleResponseIdFresh(id, fresh) == fresh

\* the id generateToolCallID gives the call message is set for its response too
GoogleResponseId(id, fresh) == id

\* what is pushed once a call has its toolResponse
GooglePushResponse(st, name, toolResponse) ==
    LET added == Append(st.added, GoogleToolResponseMessage(name, toolResponse))
    IN [added |-> added,
        ids |-> st.ids @@ (Len(added) :> GoogleResponseId(st.cur, CallId(st.next + 1))),
        next |-> st.next, cur |-> st.cur]

\* the loop over functionCalls up to the next await
RECURSIVE GoogleDrain(_, _)
GoogleDrain(st, calls) ==
    IF calls = <<>> THEN [st |-> st, rest |-> <<>>]
    ELSE LET name == Head(calls)
             added == Append(st.added, GoogleToolCallMessage(name))
             id == CallId(st.next)
             withCall == [added |-> added, ids |-> st.ids @@ (Len(added) :> id),
                          next |-> st.next + 1, cur |-> id]
         IN IF name \in Registry
            THEN [st |-> withCall, rest |-> calls]
            ELSE GoogleDrain(GooglePushResponse(withCall, name, NullContent),
                             Tail(calls))

\* GoogleLoopHead without the stopSignal check
GoogleLoopHeadNoSignal(rt, ids, added) ==
    IF rt <= Budget THEN IssueCall
    ELSE Return(GoogleResult(ids, added))

\* `while (roundtrips <= (options.maxToolRoundtrips || 5))` and the stop check
GoogleLoopHead(rt, ids, added) ==
    IF rt <= Budget /\ ~signal THEN IssueCall
    ELSE Return(GoogleResult(ids, added))

GoogleAfterCalls(ids, added, fs) ==
    IF fs
    THEN /\ Return(GoogleResult(ids, added))
         /\ roundtrips' = roundtrips
    ELSE /\ roundtrips' = roundtrips + 1
         /\ GoogleLoopHead(roundtrips + 1, ids, added)

GoogleGenerateText ==
    /\ adapter = "google"
    /\ pc = "idle"
    /\ signalAtEntry' = signal
    /\ GoogleLoopHead(0, <<>>, <<>>)
    /\ UNCHANGED <<adapter, maxToolRoundtrips, signal, roundtrips, addedMessages,
                   pending, forceStop, runAgain, nextId, functionCallIDs,
                   toolNameMap, stopRequested, responses, callsRequested>>
    /\ UNCHANGED <<retryCount, callFailed, pacingChecks, textMessageGenerated,
                   malformed, besideRun>>
    /\ UNCHANGED reportVars
    /\ SentResults({"function"})

\* the loop over functionCalls, entered once the text (if any) has been pushed;
\* pending holds the names of the calls still to finish, cur the id of the
\* call being executed
GoogleAfterText(added, names, asked) ==
    LET d == GoogleDrain([added |-> added, ids |-> functionCallIDs,
                          next |-> nextId, cur |-> ""], names)
    IN /\ addedMessages' = d.st.added
       /\ functionCallIDs' = d.st.ids
       /\ nextId' = d.st.next
       /\ pending' = d.rest
       /\ IF names # <<>>
          THEN /\ forceStop' = FALSE
               /\ IF pending' # <<>>
                  THEN AwaitTool(asked) /\ roundtrips' = roundtrips
                  ELSE GoogleAfterCalls(functionCallIDs', addedMessages', FALSE)
          ELSE /\ Return(GoogleResult(functionCallIDs', addedMessages'))
               /\ UNCHANGED <<forceStop, roundtrips>>

\* the provider call resolves with a candidate; the callback is awaited
\* before the text message is pushed
GoogleResponse ==
    /\ adapter = "google"
    /\ pc = "calling"
    /\ providerCalls <= Followed
    /\ \E parts \in PartLists :
         LET fullText == JoinTexts(parts)
             functionCalls == SelectSeq(parts, LAMBDA q : q.kind = "call")
             names == [k \in 1..Len(functionCalls) |-> functionCalls[k].name]
         IN /\ Record(Len(parts) - Len(names), names)
            /\ textsReturned' = IF fullText # "" THEN Append(textsReturned, fullText)
                                ELSE textsReturned
            /\ IF fullText # "" /\ textMessageGenerated
               THEN /\ AwaitCallback(fullText)
                    /\ reporting' = <<fullText>>
                    /\ pending' = names
                    /\ UNCHANGED <<addedMessages, functionCallIDs, nextId,
                                   forceStop, roundtrips>>
               ELSE /\ GoogleAfterText(
                           IF fullText # ""
                           THEN Append(addedMessages, GoogleTextMessage(fullText))
                           ELSE addedMessages,
                           names, callsRequested + Len(names))
                    /\ UNCHANGED <<reporting, callbacks>>
            /\ Sent(sendList
                    \o <<[role |-> "model", parts |-> parts]>>
                    \o Pushed(addedMessages, addedMessages', {"function"}))
    /\ UNCHANGED <<adapter, maxToolRoundtrips, signal, runAgain, stopRequested,
                   signalAtEntry, toolNameMap>>
    /\ UNCHANGED <<retryCount, callFailed, pacingChecks, textMessageGenerated,
                   malformed, besideRun>>

\* textMessageGenerated has returned: the text message is pushed and the
\* function calls are handled
GoogleTextReported ==
    /\ adapter = "google"
    /\ pc = "reporting"
    /\ reporting' = <<>>
    /\ GoogleAfterText(Append(addedMessages, GoogleTextMessage(Head(reporting))),
                       pending, callsRequested)
    /\ UNCHANGED <<adapter, maxToolRoundtrips, signal, runAgain, stopRequested,
                   signalAtEntry, toolNameMap, responses, callsRequested,
                   callbacks, textsReturned>>
    /\ UNCHANGED <<retryCount, callFailed, pacingChecks, textMessageGenerated,
                   malformed, besideRun>>
    /\ SentResults({"function"})

GoogleToolDone ==
    /\ adapter = "google"
    /\ pc = "executing"
    /\ \E value \in ToolValues, setsForceStop \in BOOLEAN :
         LET fs == forceStop \/ setsForceStop
             cur == functionCallIDs[Len(addedMessages)]
             st == GooglePushResponse([added |-> addedMessages, ids |-> functionCallIDs,
                                       next |-> nextId, cur |-> cur],
                                      Head(pending), value)
         IN \E d \in {GoogleDrain(st, Remaining(Tail(pending), fs))} :
            /\ forceStop' = fs
            /\ stopRequested' = (stopRequested \/ setsForceStop)
            /\ addedMessages' = d.st.added
            /\ functionCallIDs' = d.st.ids
            /\ nextId' = d.st.next
            /\ pending' = d.rest
            /\ IF pending' # <<>>
               THEN AwaitTool(callsRequested) /\ roundtrips' = roundtrips
               ELSE GoogleAfterCalls(functionCallIDs', addedMessages', fs)
    /\ UNCHANGED <<adapter, maxToolRoundtrips, signal, runAgain, signalAtEntry,
                   responses, callsRequested, toolNameMap>>
    /\ UNCHANGED <<retryCount, callFailed, pacingChecks, textMessageGenerated,
                   malformed, besideRun>>
    /\ UNCHANGED reportVars
    /\ SentResults({"function"})

(* ================================ Claude ================================ *)

ClaudeTextBlock(t) == [type |-> "text", text |-> t]
ClaudeToolUse(id, name) == [type |-> "tool_use", id |-> id, name |-> name]

\* a message whose content is a string; content_string stands for a `content`
\* for which Array.isArray is false
ClaudeStringMessage(role, text) == [role |-> role, content_string |-> text]

\* cleanedResponse: `{role: response.role, content: response.content}`
ClaudeAssistantMessage(content) == [role |-> "assistant", content |-> content]

\* toolResultMessage, for an executed tool and for one that was not found
ClaudeToolResultMessage(id, content) ==
    [role |-> "user",
     content |-> <<[type |-> "tool_result", tool_use_id |-> id, content |-> content]>>]

\* `toolNameMap.get(content.tool_use_id) || ""`
ClaudeNameOf(names, id) == IF id \in DOMAIN names THEN names[id] ELSE ""

RECURSIVE ClaudeBlocksFrom(_, _, _)
ClaudeBlocksFrom(names, message, k) ==
    IF k > Len(message.content) THEN <<>>
    ELSE LET content == message.content[k]
             here ==
                 IF message.role = "assistant" /\ content.type = "tool_use"
                 THEN <<BaseToolCall(content.id, content.name)>>
                 ELSE IF message.role = "assistant" /\ content.type = "text"
                 THEN <<BaseText(content.text)>>
                 ELSE IF message.role = "user" /\ content.type = "tool_result"
                 THEN <<BaseToolResponse(content.tool_use_id,
                            ClaudeNameOf(names, content.tool_use_id),
                            content.content)>>
                 ELSE IF message.role = "user" /\ content.type = "text"
                 THEN <<[BaseText(content.text) EXCEPT !.role = "user"]>>
                 ELSE <<>>
         IN here \o ClaudeBlocksFrom(names, message, k + 1)

RECURSIVE ClaudeFromAt(_, _, _)
ClaudeFromAt(names, messages, i) ==
    IF i > Len(messages) THEN <<>>
    ELSE (IF "content" \in DOMAIN messages[i]
          THEN ClaudeBlocksFrom(names, messages[i], 1)
          ELSE <<[BaseText(messages[i].content_string) EXCEPT
                     !.role = messages[i].role]>>)
         \o ClaudeFromAt(names, messages, i + 1)

convertMessagesFromClaude(messages, names) == ClaudeFromAt(names, messages, 1)

\* ClaudeText taking the last text block instead of the first
ClaudeTextLast(added) ==
    IF Len(added) = 0 THEN ""
    ELSE IF "content" \notin DOMAIN added[Len(added)]
    THEN (IF added[Len(added)].content_string = NullContent THEN ""
          ELSE added[Len(added)].content_string)
    ELSE LET content == added[Len(added)].content
             texts == SelectSeq(content, LAMBDA c : c.type = "text")
         IN IF texts = <<>> THEN "" ELSE texts[Len(texts)].text

\* the last added message's content when that is a string, the result of
\* `content.find(c => c.type === "text")?.text || ""` when it is an array,
\* null (returned as '') otherwise
ClaudeText(added) ==
    IF Len(added) = 0 THEN ""
    ELSE IF "content" \notin DOMAIN added[Len(added)]
    THEN (IF added[Len(added)].content_string = NullContent THEN ""
          ELSE added[Len(added)].content_string)
    ELSE LET content == added[Len(added)].content
             texts == SelectSeq(content, LAMBDA c : c.type = "text")
         IN IF texts = <<>> THEN "" ELSE Head(texts).text

ClaudeResult(added, names) ==
    [addedMessages |-> convertMessagesFromClaude(added, names),
     text |-> ClaudeText(added)]

\* the loop over toolUses up to the next await
RECURSIVE ClaudeDrain(_, _)
ClaudeDrain(st, toolUses) ==
    IF toolUses = <<>> THEN [st |-> st, rest |-> <<>>]
    ELSE LET toolUse == Head(toolUses)
         IN IF toolUse.name \in Registry
            THEN [st |-> [added |-> st.added,
                          names |-> (toolUse.id :> toolUse.name) @@ st.names,
                          runAgain |-> TRUE],
                  rest |-> toolUses]
            ELSE ClaudeDrain(
                     [added |-> Append(st.added,
                                    ClaudeToolResultMessage(toolUse.id, ToolNotFound)),
                      names |-> st.names, runAgain |-> st.runAgain],
                     Tail(toolUses))

\* ClaudeLoopHead without the stopSignal check
ClaudeLoopHeadNoSignal(rounds, added, names) ==
    IF rounds < Budget THEN IssueCall
    ELSE Return(ClaudeResult(added, names))

\* `while (rounds < maxRoundtrips)` and the stop check
ClaudeLoopHead(rounds, added, names) ==
    IF rounds < Budget /\ ~signal THEN IssueCall
    ELSE Return(ClaudeResult(added, names))

\* after the loop over toolUses: `rounds++`, forceStop, `if (!runAgain) break`
ClaudeAfterCalls(added, names, again, fs) ==
    /\ roundtrips' = roundtrips + 1
    /\ runAgain' = (again /\ ~fs)
    /\ IF again /\ ~fs
       THEN ClaudeLoopHead(roundtrips + 1, added, names)
       ELSE Return(ClaudeResult(added, names))

ClaudeGenerateText ==
    /\ adapter = "claude"
    /\ pc = "idle"
    /\ signalAtEntry' = signal
    /\ ClaudeLoopHead(0, <<>>, <<>>)
    /\ UNCHANGED <<adapter, maxToolRoundtrips, signal, roundtrips, addedMessages,
                   pending, forceStop, runAgain, nextId, functionCallIDs,
                   toolNameMap, stopRequested, responses, callsRequested>>
    /\ pacingChecks' = pacingChecks + 1
    /\ UNCHANGED <<retryCount, callFailed, textMessageGenerated, malformed, besideRun>>
    /\ UNCHANGED reportVars
    /\ SentResults({"assistant", "user"})

\* the loop over toolUses, entered once the callbacks have returned
ClaudeAfterTexts(added, toolUses, asked) ==
    LET d == ClaudeDrain([added |-> added, names |-> toolNameMap,
                          runAgain |-> FALSE], toolUses)
    IN /\ addedMessages' = d.st.added
       /\ toolNameMap' = d.st.names
       /\ pending' = d.rest
       /\ IF d.rest # <<>>
          THEN /\ AwaitTool(asked)
               /\ runAgain' = d.st.runAgain
               /\ roundtrips' = roundtrips
          ELSE ClaudeAfterCalls(d.st.added, d.st.names, d.st.runAgain, forceStop)

\* the provider call resolves with a message: it is pushed, then the callback
\* is awaited for each text block, then the tool uses are handled
ClaudeResponse ==
    /\ adapter = "claude"
    /\ pc = "calling"
    /\ providerCalls <= Followed
    /\ \E parts \in PartLists :
         LET n == Cardinality({k \in 1..Len(parts) : parts[k].kind = "call"})
             idx(k) == Cardinality({j \in 1..k : parts[j].kind = "call"})
             content == [k \in 1..Len(parts) |->
                            IF parts[k].kind = "text"
                            THEN ClaudeTextBlock(parts[k].text)
                            ELSE ClaudeToolUse(CallId(nextId + idx(k) - 1),
                                               parts[k].name)]
             toolUses == SelectSeq(content, LAMBDA c : c.type = "tool_use")
             textBlocks == SelectSeq(content, LAMBDA c : c.type = "text")
             texts == [k \in 1..Len(textBlocks) |-> textBlocks[k].text]
             added == Append(addedMessages, ClaudeAssistantMessage(content))
         IN /\ Record(Len(parts) - n, [k \in 1..n |-> toolUses[k].name])
            /\ textsReturned' = textsReturned \o texts
            /\ nextId' = nextId + n
            /\ IF texts # <<>> /\ textMessageGenerated
               THEN /\ AwaitCallback(Head(texts))
                    /\ reporting' = texts
                    /\ addedMessages' = added
                    /\ pending' = toolUses
                    /\ runAgain' = FALSE
                    /\ UNCHANGED <<toolNameMap, roundtrips>>
               ELSE /\ ClaudeAfterTexts(added, toolUses, callsRequested + n)
                    /\ UNCHANGED <<reporting, callbacks>>
    /\ UNCHANGED <<adapter, maxToolRoundtrips, signal, forceStop, stopRequested,
                   signalAtEntry, functionCallIDs>>
    /\ retryCount' = 0
    /\ UNCHANGED <<callFailed, pacingChecks, textMessageGenerated, malformed, besideRun>>
    /\ SentResults({"assistant", "user"})

\* textMessageGenerated has returned: the callback of the next text block is
\* awaited, or the tool uses are handled
ClaudeTextReported ==
    /\ adapter = "claude"
    /\ pc = "reporting"
    /\ reporting' = Tail(reporting)
    /\ IF Len(reporting) > 1
       THEN /\ AwaitCallback(reporting[2])
            /\ UNCHANGED <<addedMessages, toolNameMap, pending, runAgain, roundtrips>>
       ELSE /\ ClaudeAfterTexts(addedMessages, pending, callsRequested)
            /\ UNCHANGED callbacks
    /\ UNCHANGED <<adapter, maxToolRoundtrips, signal, forceStop, stopRequested,
                   signalAtEntry, functionCallIDs, nextId, responses,
                   callsRequested, textsReturned>>
    /\ UNCHANGED <<retryCount, callFailed, pacingChecks, textMessageGenerated,
                   malformed, besideRun>>
    /\ SentResults({"assistant", "user"})

\* `content: toolResponse !== null ? JSON.stringify(toolResponse) : ""`
ClaudeToolDone ==
    /\ adapter = "claude"
    /\ pc = "executing"
    /\ \E value \in ToolValues, setsForceStop \in BOOLEAN :
         LET fs == forceStop \/ setsForceStop
             withResult == Append(addedMessages,
                               ClaudeToolResultMessage(Head(pending).id,
                                                       JSONStringify(value)))
             d == ClaudeDrain([added |-> withResult, names |-> toolNameMap,
                               runAgain |-> runAgain],
                              Remaining(Tail(pending), fs))
         IN /\ forceStop' = fs
            /\ stopRequested' = (stopRequested \/ setsForceStop)
            /\ addedMessages' = d.st.added
            /\ toolNameMap' = d.st.names
            /\ pending' = d.rest
            /\ IF d.rest # <<>>
               THEN /\ AwaitTool(callsRequested)
                    /\ runAgain' = d.st.runAgain
                    /\ roundtrips' = roundtrips
               ELSE ClaudeAfterCalls(d.st.added, d.st.names, d.st.runAgain, fs)
    /\ UNCHANGED <<adapter, maxToolRoundtrips, signal, nextId, signalAtEntry,
                   responses, callsRequested, functionCallIDs>>
    /\ UNCHANGED <<retryCount, callFailed, pacingChecks, textMessageGenerated,
                   malformed, besideRun>>
    /\ UNCHANGED reportVars
    /\ SentResults({"assistant", "user"})

(* ------------------------ provider call failures ------------------------ *)

\* `Error: ${error}`, the text Claude's catch clause returns
ErrorText == "Error: <error>"

\* maxRetries of Claude's 429 retry loop
ClaudeMaxRetries == 3

\* a rejected `await`: the error leaves generateText, nothing is returned
Raise ==
    /\ pc' = "raised"
    /\ callFailed' = TRUE
    /\ UNCHANGED <<adapter, maxToolRoundtrips, signal, roundtrips, addedMessages,
                   pending, forceStop, runAgain, nextId, functionCallIDs,
                   toolNameMap, result, providerCalls, stopRequested,
                   signalAtEntry, signalAtIssue, responses, callsRequested,
                   retryCount, pacingChecks, textMessageGenerated, reportVars,
                   started, malformed, besideRun>>

\* Claude's `catch (error: any)` around the whole body: the error is logged
\* and an ordinary value is returned
ClaudeCatch ==
    /\ Return([addedMessages |-> <<>>, text |-> ErrorText])
    /\ callFailed' = TRUE
    /\ UNCHANGED <<adapter, maxToolRoundtrips, signal, roundtrips, addedMessages,
                   pending, forceStop, runAgain, nextId, functionCallIDs,
                   toolNameMap, stopRequested, signalAtEntry, responses,
                   callsRequested, pacingChecks, textMessageGenerated, reportVars,
                   malformed, besideRun>>

\* `await this.provider.chat.completions.create(...)` rejects; the call is
\* not inside any try block
OpenAICallFailed ==
    /\ adapter = "openai"
    /\ pc = "calling"
    /\ providerCalls <= Followed
    /\ Raise
    /\ UNCHANGED <<sendList, requests>>

\* runWithTimeoutAndRetry rejects (an error that is not retryable, or the
\* last attempt's error); the catch clause logs it and throws it again
GoogleCallFailed ==
    /\ adapter = "google"
    /\ pc = "calling"
    /\ providerCalls <= Followed
    /\ Raise
    /\ UNCHANGED <<sendList, requests>>

\* `this.provider.messages.create(...)` rejects with a status other than 429:
\* the inner catch throws it again, the outer catch returns
ClaudeCallFailed ==
    /\ adapter = "claude"
    /\ pc = "calling"
    /\ providerCalls <= Followed
    /\ retryCount' = retryCount
    /\ ClaudeCatch
    /\ UNCHANGED <<sendList, requests>>

\* `create` rejects with status 429: `retryCount++`, then the error is thrown
\* when `retryCount > maxRetries`, otherwise the loop waits and calls again
ClaudeRateLimited ==
    /\ adapter = "claude"
    /\ pc = "calling"
    /\ providerCalls <= Followed
    /\ retryCount' = retryCount + 1
    /\ IF retryCount + 1 > ClaudeMaxRetries
       THEN ClaudeCatch
       ELSE UNCHANGED <<adapter, maxToolRoundtrips, signal, pc, roundtrips,
                        addedMessages, pending, forceStop, runAgain, nextId,
                        functionCallIDs, toolNameMap, result, providerCalls,
                        stopRequested, signalAtEntry, signalAtIssue, responses,
                        callsRequested, callFailed, pacingChecks,
                        textMessageGenerated, reportVars, started, malformed,
                        besideRun>>
    /\ UNCHANGED <<sendList, requests>>

(* ---------------------- malformed provider responses -------------------- *)

\* the OpenAI completion has no choice (`response.choices[0].message` of an
\* empty array), or the arguments of its call of a registered tool are not
\* JSON (`JSON.parse`): a TypeError or SyntaxError leaves generateText
OpenAIMalformedResponse ==
    /\ adapter = "openai"
    /\ pc = "calling"
    /\ providerCalls <= Followed
    /\ \E defect \in {"no choice", "arguments"} :
         Record(0, IF defect = "arguments" THEN <<"get_weather">> ELSE <<>>)
    /\ pc' = "raised"
    /\ malformed' = TRUE
    /\ UNCHANGED <<adapter, maxToolRoundtrips, signal, roundtrips, addedMessages,
                   pending, forceStop, runAgain, nextId, functionCallIDs,
                   toolNameMap, result, providerCalls, stopRequested,
                   signalAtEntry, signalAtIssue, retryCount, callFailed,
                   pacingChecks, textMessageGenerated, reportVars, started,
                   besideRun>>
    /\ UNCHANGED <<sendList, requests>>

\* the Google response has no candidate, or its candidate no content: the
\* `if` over them is skipped and `if (!runAgain) break` ends the loop
GoogleMalformedResponse ==
    /\ adapter = "google"
    /\ pc = "calling"
    /\ providerCalls <= Followed
    /\ Record(0, <<>>)
    /\ malformed' = TRUE
    /\ Return(GoogleResult(functionCallIDs, addedMessages))
    /\ UNCHANGED <<adapter, maxToolRoundtrips, signal, roundtrips, addedMessages,
                   pending, forceStop, runAgain, nextId, functionCallIDs,
                   toolNameMap, stopRequested, signalAtEntry, retryCount,
                   callFailed, pacingChecks, textMessageGenerated, reportVars,
                   besideRun>>
    /\ UNCHANGED <<sendList, requests>>

\* the Claude message has no content: it is pushed as it is, no callback and
\* no tool loop runs, and `if (!runAgain) break` ends the loop
ClaudeMalformedResponse ==
    /\ adapter = "claude"
    /\ pc = "calling"
    /\ providerCalls <= Followed
    /\ Record(0, <<>>)
    /\ malformed' = TRUE
    /\ addedMessages' = Append(addedMessages, ClaudeStringMessage("assistant", NullContent))
    /\ runAgain' = FALSE
    /\ retryCount' = 0
    /\ Return(ClaudeResult(addedMessages', toolNameMap))
    /\ UNCHANGED <<adapter, maxToolRoundtrips, signal, roundtrips, pending,
                   forceStop, nextId, functionCallIDs, toolNameMap,
                   stopRequested, signalAtEntry, callFailed, pacingChecks,
                   textMessageGenerated, reportVars, besideRun>>
    /\ UNCHANGED <<sendList, requests>>

Next ==
    \/ SignalSet
    \/ SignalClear
    \/ OpenAIGenerateText
    \/ OpenAIResponse
    \/ OpenAIToolDone
    \/ GoogleGenerateText
    \/ GoogleResponse
    \/ GoogleToolDone
    \/ ClaudeGenerateText
    \/ ClaudeResponse
    \/ ClaudeToolDone
    \/ OpenAITextReported
    \/ GoogleTextReported
    \/ ClaudeTextReported
    \/ OpenAIMalformedResponse
    \/ GoogleMalformedResponse
    \/ ClaudeMalformedResponse
    \/ OpenAICallFailed
    \/ GoogleCallFailed
    \/ ClaudeCallFailed
    \/ ClaudeRateLimited

Spec == Init /\ [][Next]_vars

\* the runs with the provider's message list followed: openAIMessages,
\* contents, claudeMessages, empty of the turns of options.messages
InitSend ==
    /\ InitRun(Adapters, 1..MaxRoundtrips, BOOLEAN, BOOLEAN)
    /\ sendList = <<>>
    /\ requests = <<>>
    /\ NoRetryCall
    /\ NoTranslation
    /\ NoConversion
    /\ NoSignalCall
    /\ NoPacing

SpecSend == InitSend /\ [][Next]_vars

\* a step of the run itself: a provider call, a tool execution, a callback or
\* a 429 wait completes and the code runs on to its next `await`
RunStep ==
    \/ OpenAIGenerateText
    \/ OpenAIResponse
    \/ OpenAIToolDone
    \/ GoogleGenerateText
    \/ GoogleResponse
    \/ GoogleToolDone
    \/ ClaudeGenerateText
    \/ ClaudeResponse
    \/ ClaudeToolDone
    \/ OpenAITextReported
    \/ GoogleTextReported
    \/ ClaudeTextReported
    \/ OpenAIMalformedResponse
    \/ GoogleMalformedResponse
    \/ ClaudeMalformedResponse
    \/ OpenAICallFailed
    \/ GoogleCallFailed
    \/ ClaudeCallFailed
    \/ ClaudeRateLimited

\* the runs with a budget of 1..MaxRoundtrips, every response of which is
\* followed
InitTerm ==
    /\ InitRun(Adapters, 1..MaxRoundtrips, BOOLEAN, BOOLEAN)
    /\ NoList
    /\ NoRetryCall
    /\ NoTranslation
    /\ NoConversion
    /\ NoSignalCall
    /\ NoPacing

\* every `await` of the run settles: the run is not left waiting for ever
SpecTerm == InitTerm /\ [][Next]_vars /\ WF_vars(RunStep)

(* ========================= runWithTimeoutAndRetry ======================= *)

DEFAULT_RETRY_DELAY_MS == 250
DEFAULT_RETRY_BACKOFF == 2

\* `a ?? b`
Coalesce(a, b) == IF a = Undefined THEN b ELSE a

\* Math.pow on naturals
RECURSIVE Pow(_, _)
Pow(b, e) == IF e = 0 THEN 1 ELSE b * Pow(b, e - 1)

\* the options tried
RetryOptions ==
    [MaxRetries : {Undefined} \cup (0..MaxRetriesTried),
     RequestTimeoutMS : {Undefined, 0, 1000},
     RetryDelayMS : {Undefined, 100},
     RetryBackoffFactor : {Undefined, 2, 3}]

\* retry predicates: the default one, one that accepts every error, one that
\* accepts none
RetryPredicates == {"default", "always", "never"}

\* delay overrides: none passed, one that returns undefined, one that returns
\* a number of milliseconds
NoOverride == [passed |-> FALSE, returns |-> Undefined]
DelayOverrides ==
    {NoOverride} \cup [passed : {TRUE}, returns : {Undefined, 0, 50}]

\* the rejection of TimeoutPromise.promise()
TimeoutError(n) == [kind |-> "TimeoutError", attempt |-> n]

\* rejections of the operation: an error object named TimeoutError, any
\* other error object, and a thrown value that is not an object
OperationErrors(n) ==
    {[kind |-> "NamedTimeoutError", attempt |-> n], [kind |-> "Error", attempt |-> n],
     [kind |-> "NotAnObject", attempt |-> n]}

\* variant: only instances of TimeoutError are retried
shouldRetryErrorInstanceOnly(error) == error.kind = "TimeoutError"

\* shouldRetryErrorDefault: `error instanceof TimeoutError`, or an object
\* whose name is 'TimeoutError'
shouldRetryErrorDefault(error) == error.kind \in {"TimeoutError", "NamedTimeoutError"}

\* shouldRetryError(error, attempt + 1)
ShouldRetry(error) ==
    CASE shouldRetryError = "default" -> shouldRetryErrorDefault(error)
      [] shouldRetryError = "always" -> TRUE
      [] shouldRetryError = "never" -> FALSE

maxRetries == Coalesce(MaxRetries, 0)
timeoutMs == Coalesce(RequestTimeoutMS, 0)
retryDelayMs == Coalesce(RetryDelayMS, DEFAULT_RETRY_DELAY_MS)
retryBackoff == Coalesce(RetryBackoffFactor, DEFAULT_RETRY_BACKOFF)

\* `getRetryDelayMs?.(error, attempt + 1)`
overrideDelay ==
    IF getRetryDelayMs.passed THEN getRetryDelayMs.returns ELSE Undefined

\* variant: the same delay before every retry
DelayNoBackoff(a) == Coalesce(overrideDelay, retryDelayMs)

\* `overrideDelay ?? (retryDelayMs * Math.pow(retryBackoff, attempt))`
Delay(a) == Coalesce(overrideDelay, retryDelayMs * Pow(retryBackoff, a))

\* variant: the notification numbers the attempts from 0
RetryNotificationZeroBased(a, error) ==
    [attempt |-> a, maxRetries |-> maxRetries, delayMs |-> Delay(a), error |-> error]

\* `{attempt: attempt + 1, maxRetries, delayMs: delay, error}`
RetryNotification(a, error) ==
    [attempt |-> a + 1, maxRetries |-> maxRetries, delayMs |-> Delay(a),
     error |-> error]

\* `if (options?.RetryNotified) options.RetryNotified({...})`
Notify(a, error) ==
    IF RetryNotified THEN Append(notifications, RetryNotification(a, error))
    ELSE notifications

\* variant: a timer for every attempt
RetryLoopHeadAlwaysTimer(a, out) ==
    /\ phase' = "awaiting"
    /\ invocations' = invocations + 1
    /\ outstanding' = out + 1
    /\ timeoutId' = TRUE
    /\ outcome' = outcome

\* `while (attempt <= maxRetries)`: the next attempt starts, with its timer
\* when `timeoutMs > 0`; after the loop `throw lastError ?? new Error(...)`
RetryLoopHead(a, out) ==
    IF a <= maxRetries
    THEN /\ phase' = "awaiting"
         /\ invocations' = invocations + 1
         /\ outstanding' = out + 1
         /\ timeoutId' = (timeoutMs > 0)
         /\ outcome' = outcome
    ELSE /\ phase' = "thrown"
         /\ outcome' = IF lastError = Null THEN [kind |-> "RequestFailed"]
                       ELSE lastError
         /\ timeoutId' = FALSE
         /\ UNCHANGED invocations
         /\ outstanding' = out

\* runWithTimeoutAndRetry is called
RetryCall ==
    /\ phase = "idle"
    /\ invocations = 0
    /\ RetryLoopHead(0, 0)
    /\ UNCHANGED <<MaxRetries, RequestTimeoutMS, RetryDelayMS, RetryBackoffFactor,
                   shouldRetryError, getRetryDelayMs, RetryNotified, attempt, lastError,
                   waits, outcomes, notifications, besideRetry>>

\* the operation resolves first: `return await ...`, the timer is cleared
OperationResolves ==
    /\ phase = "awaiting"
    /\ phase' = "returned"
    /\ outcome' = [kind |-> "value", attempt |-> attempt + 1]
    /\ outstanding' = outstanding - 1
    /\ timeoutId' = FALSE
    /\ outcomes' = Append(outcomes, [by |-> "operation", kind |-> "value"])
    /\ UNCHANGED <<MaxRetries, RequestTimeoutMS, RetryDelayMS, RetryBackoffFactor,
                   shouldRetryError, getRetryDelayMs, RetryNotified, attempt, lastError,
                   invocations, waits, notifications, besideRetry>>

\* variant: the first error is the one thrown
RetryCatchFirstError(error, out) ==
    /\ lastError' = (IF lastError = Null THEN error ELSE lastError)
    /\ IF attempt >= maxRetries \/ ~ShouldRetry(error)
       THEN /\ phase' = "thrown"
            /\ outcome' = (IF lastError = Null THEN error ELSE lastError)
            /\ outstanding' = out
            /\ timeoutId' = FALSE
            /\ UNCHANGED <<attempt, invocations, waits, notifications>>
       ELSE /\ waits' = Append(waits, Delay(attempt))
            /\ notifications' = Notify(attempt, error)
            /\ IF Delay(attempt) > 0
               THEN /\ phase' = "sleeping"
                    /\ outstanding' = out
                    /\ timeoutId' = FALSE
                    /\ UNCHANGED <<attempt, invocations, outcome>>
               ELSE /\ attempt' = attempt + 1
                    /\ RetryLoopHead(attempt + 1, out)

\* `catch (error)`: the error is thrown to the caller, or the delay is
\* computed and waited (no wait for a delay of 0) and then `attempt += 1`
RetryCatch(error, out) ==
    /\ lastError' = error
    /\ IF attempt >= maxRetries \/ ~ShouldRetry(error)
       THEN /\ phase' = "thrown"
            /\ outcome' = error
            /\ outstanding' = out
            /\ timeoutId' = FALSE
            /\ UNCHANGED <<attempt, invocations, waits, notifications>>
       ELSE /\ waits' = Append(waits, Delay(attempt))
            /\ notifications' = Notify(attempt, error)
            /\ IF Delay(attempt) > 0
               THEN /\ phase' = "sleeping"
                    /\ outstanding' = out
                    /\ timeoutId' = FALSE
                    /\ UNCHANGED <<attempt, invocations, outcome>>
               ELSE /\ attempt' = attempt + 1
                    /\ RetryLoopHead(attempt + 1, out)

\* the operation rejects first: its error is the attempt's error, the timer
\* is cleared
OperationRejects ==
    /\ phase = "awaiting"
    /\ \E error \in OperationErrors(attempt + 1) :
         /\ RetryCatch(error, outstanding - 1)
         /\ outcomes' = Append(outcomes, [by |-> "operation", kind |-> error.kind])
    /\ UNCHANGED <<MaxRetries, RequestTimeoutMS, RetryDelayMS, RetryBackoffFactor,
                   shouldRetryError, getRetryDelayMs, RetryNotified, besideRetry>>

\* the timer fires first: the race rejects with a TimeoutError; the operation
\* of this attempt goes on unobserved
TimerFires ==
    /\ phase = "awaiting"
    /\ timeoutId
    /\ RetryCatch(TimeoutError(attempt + 1), outstanding)
    /\ outcomes' = Append(outcomes, [by |-> "timer", kind |-> "TimeoutError"])
    /\ UNCHANGED <<MaxRetries, RequestTimeoutMS, RetryDelayMS, RetryBackoffFactor,
                   shouldRetryError, getRetryDelayMs, RetryNotified, besideRetry>>

\* `await sleep(delay)` is over: `attempt += 1` and the loop head
SleepDone ==
    /\ phase = "sleeping"
    /\ attempt' = attempt + 1
    /\ RetryLoopHead(attempt + 1, outstanding)
    /\ UNCHANGED <<MaxRetries, RequestTimeoutMS, RetryDelayMS, RetryBackoffFactor,
                   shouldRetryError, getRetryDelayMs, RetryNotified, lastError, waits,
                   outcomes, notifications, besideRetry>>

\* an operation whose attempt ended by timeout settles: nobody awaits it
AbandonedSettles ==
    /\ outstanding > (IF phase = "awaiting" THEN 1 ELSE 0)
    /\ outstanding' = outstanding - 1
    /\ UNCHANGED <<MaxRetries, RequestTimeoutMS, RetryDelayMS, RetryBackoffFactor,
                   shouldRetryError, getRetryDelayMs, RetryNotified, phase, attempt, lastError,
                   timeoutId, outcome, invocations, waits, outcomes, notifications, besideRetry>>

InitRetry ==
    /\ NoRun
    /\ NoTranslation
    /\ NoConversion
    /\ NoSignalCall
    /\ NoPacing
    /\ \E o \in RetryOptions :
         /\ MaxRetries = o.MaxRetries
         /\ RequestTimeoutMS = o.RequestTimeoutMS
         /\ RetryDelayMS = o.RetryDelayMS
         /\ RetryBackoffFactor = o.RetryBackoffFactor
    /\ shouldRetryError \in RetryPredicates
    /\ getRetryDelayMs \in DelayOverrides
    /\ phase = "idle"
    /\ attempt = 0
    /\ lastError = Null
    /\ timeoutId = FALSE
    /\ outstanding = 0
    /\ outcome = Null
    /\ invocations = 0
    /\ waits = <<>>
    /\ outcomes = <<>>
    /\ RetryNotified \in BOOLEAN
    /\ notifications = <<>>

NextRetry ==
    \/ RetryCall
    \/ OperationResolves
    \/ OperationRejects
    \/ TimerFires
    \/ SleepDone
    \/ AbandonedSettles

SpecRetry == InitRetry /\ [][NextRetry]_vars

(* ============================ tool translation ========================== *)

\* zod definitions (`_def`): typeName and the fields the translators read
ZodLeaves ==
    {[typeName |-> "ZodString"], [typeName |-> "ZodNumber"],
     [typeName |-> "ZodBoolean"], [typeName |-> "ZodAny"],
     [typeName |-> "ZodEnum", values |-> <<"x", "y">>]}
ZodOptional(t) == [typeName |-> "ZodOptional", innerType |-> t]
ZodDefault(t) == [typeName |-> "ZodDefault", innerType |-> t, defaultValue |-> "d"]
ZodArray(t) == [typeName |-> "ZodArray", type |-> t]
ZodObject(fields) == [typeName |-> "ZodObject", shape |-> fields]

\* the key of the i-th field of a shape; the first field is named `type`
FieldName(i) == IF i = 1 THEN "type" ELSE "f" \o ToString(i)

\* the zod definitions of exactly n nodes, and the field lists of n nodes
ZodOfSize[n \in 0..MaxNodes] ==
    LET trees ==
            IF n = 0 THEN {}
            ELSE (IF n = 1 THEN ZodLeaves ELSE {})
                 \cup {ZodOptional(t) : t \in ZodOfSize[n - 1].trees}
                 \cup {ZodDefault(t) : t \in ZodOfSize[n - 1].trees}
                 \cup {ZodArray(t) : t \in ZodOfSize[n - 1].trees}
                 \cup {ZodObject(f) : f \in ZodOfSize[n - 1].forests}
        forests ==
            IF n = 0 THEN {<<>>}
            ELSE UNION {{<<t>> \o f :
                            t \in (IF k = n THEN trees ELSE ZodOfSize[k].trees),
                            f \in ZodOfSize[n - k].forests} : k \in 1..n}
    IN [trees |-> trees, forests |-> forests]

\* the parameter schemas of the tools tried: objects of at most MaxNodes nodes
ToolParameters ==
    UNION {{ZodObject(f) : f \in ZodOfSize[n - 1].forests} : n \in 1..MaxNodes}

Has(r, field) == field \in DOMAIN r

\* zodTypeToSchemaType
zodTypeToSchemaType(zodType) ==
    CASE zodType = "ZodString" -> "string"
      [] zodType = "ZodNumber" -> "number"
      [] zodType = "ZodBoolean" -> "boolean"
      [] zodType = "ZodObject" -> "object"
      [] zodType = "ZodArray" -> "array"
      [] OTHER -> "string"

\* variant: a default alone does not make a field optional
ResolveFieldIgnoreDefault(s) ==
    LET afterDefault == IF s.typeName = "ZodDefault" THEN s.innerType ELSE s
    IN IF afterDefault.typeName = "ZodOptional"
       THEN [type |-> s.innerType.typeName, innerDef |-> s.innerType,
             optional |-> TRUE, hasDefault |-> FALSE]
       ELSE [type |-> afterDefault.typeName, innerDef |-> afterDefault,
             optional |-> FALSE, hasDefault |-> FALSE]

\* the head of the loop body of parseZodObject: type, innerDef, optional and
\* hasDefault of the field shape[key]; the second step reads
\* shape[key]._def.innerType again, whatever the first step unwrapped
ResolveField(s) ==
    LET afterDefault == IF s.typeName = "ZodDefault" THEN s.innerType ELSE s
        hasDefault0 == Has(s, "defaultValue") \/ s.typeName = "ZodDefault"
    IN IF afterDefault.typeName = "ZodOptional"
       THEN IF s.innerType.typeName = "ZodDefault"
            THEN [type |-> s.innerType.innerType.typeName,
                  innerDef |-> s.innerType.innerType,
                  optional |-> TRUE, hasDefault |-> TRUE]
            ELSE [type |-> s.innerType.typeName, innerDef |-> s.innerType,
                  optional |-> TRUE,
                  hasDefault |-> hasDefault0 \/ Has(s.innerType, "defaultValue")]
       ELSE [type |-> afterDefault.typeName, innerDef |-> afterDefault,
             optional |-> FALSE, hasDefault |-> hasDefault0]

\* a TypeError was thrown
Raised == [raised |-> TRUE]

\* the value of a function that ends without `return`
UndefinedSchema == [undefined |-> TRUE]

\* parseZodObject: an object schema for a ZodObject definition, undefined for
\* any other definition; reading `.type` of undefined throws
RECURSIVE parseZodObject(_)
parseZodObject(zodObject) ==
    IF zodObject.typeName # "ZodObject" THEN UndefinedSchema
    ELSE
    LET shape == zodObject.shape
        property(s) ==
            LET r == ResolveField(s)
            IN CASE r.type = "ZodString" -> [type |-> "string"]
                 [] r.type = "ZodNumber" -> [type |-> "number"]
                 [] r.type = "ZodBoolean" -> [type |-> "boolean"]
                 [] r.type = "ZodObject" ->
                      LET nested == parseZodObject(s)
                      IN IF nested = UndefinedSchema THEN Raised ELSE nested
                 [] r.type = "ZodArray" ->
                      IF Has(s, "type")
                      THEN [type |-> "array",
                            items |-> [type |-> zodTypeToSchemaType(s.type.typeName)]]
                      ELSE [type |-> "array"]
                 [] r.type = "ZodEnum" ->
                      [type |-> "string", enum |-> r.innerDef.values]
                 [] OTHER -> [type |-> "string"]
        properties == [i \in 1..Len(shape) |->
                          [key |-> FieldName(i), value |-> property(shape[i])]]
        isRequired(i) == LET r == ResolveField(shape[i])
                         IN ~r.optional /\ ~r.hasDefault
        indices == [i \in 1..Len(shape) |-> i]
        required == [k \in 1..Len(SelectSeq(indices, isRequired)) |->
                        FieldName(SelectSeq(indices, isRequired)[k])]
    IN IF \E i \in 1..Len(shape) : properties[i].value = Raised
       THEN Raised
       ELSE [type |-> "object", properties |-> properties, required |-> required]

\* the placeholder of GoogleModel.validateParameterTypes
DummyProperty ==
    [key |-> "dummy", value |-> [type |-> "string", description |-> "unused"]]

\* validateParameterTypes; insertDummy tells whether the adapter's version has
\* the `Object.keys(schema.properties).length == 0` branch (Google's has it,
\* OpenAI's and Claude's have not)
RECURSIVE validateParameterTypes(_, _)
validateParameterTypes(schema, insertDummy) ==
    IF ~Has(schema, "properties") THEN schema
    ELSE
    LET props == IF insertDummy /\ schema.properties = <<>>
                 THEN <<DummyProperty>> ELSE schema.properties
        fix(prop) ==
            LET typed == IF Has(prop, "type") THEN prop
                         ELSE prop @@ [type |-> "string"]
                nested == IF Has(typed, "properties")
                          THEN validateParameterTypes(typed, insertDummy)
                          ELSE typed
            IN IF nested.type = "array" /\ ~Has(nested, "items")
               THEN nested @@ [items |-> [type |-> "string"]]
               ELSE nested
        withType == IF Has(schema, "type") THEN schema
                    ELSE schema @@ [type |-> "object"]
    IN [withType EXCEPT !.properties =
           [i \in 1..Len(props) |-> [key |-> props[i].key, value |-> fix(props[i].value)]]]

\* variant: the result of parseZodObject is returned as it is
ConvertToolNoValidate(zodTool, insertDummy) ==
    LET parsed == parseZodObject(zodTool)
    IN IF parsed = Raised THEN [done |-> TRUE, raised |-> TRUE]
       ELSE [done |-> TRUE, raised |-> FALSE, schema |-> parsed]

\* convertToolCallForOpenAI / convertToolCallForGoogle / convertToolForClaude:
\* parseZodObject, then validateParameterTypes on its result
ConvertTool(zodTool, insertDummy) ==
    LET parsed == parseZodObject(zodTool)
    IN IF parsed = Raised THEN [done |-> TRUE, raised |-> TRUE]
       ELSE [done |-> TRUE, raised |-> FALSE,
             schema |-> validateParameterTypes(parsed, insertDummy)]

OpenAIConvertTool ==
    /\ translator = "none"
    /\ translator' = "openai"
    /\ translation' = ConvertTool(parameters, FALSE)
    /\ UNCHANGED <<parameters, besideSchema>>

GoogleConvertTool ==
    /\ translator = "none"
    /\ translator' = "google"
    /\ translation' = ConvertTool(parameters, TRUE)
    /\ UNCHANGED <<parameters, besideSchema>>

ClaudeConvertTool ==
    /\ translator = "none"
    /\ translator' = "claude"
    /\ translation' = ConvertTool(parameters, FALSE)
    /\ UNCHANGED <<parameters, besideSchema>>

InitSchema ==
    /\ NoRun
    /\ NoRetryCall
    /\ NoConversion
    /\ NoSignalCall
    /\ NoPacing
    /\ translator = "none"
    /\ parameters \in ToolParameters
    /\ translation = [done |-> FALSE]

NextSchema ==
    \/ OpenAIConvertTool
    \/ GoogleConvertTool
    \/ ClaudeConvertTool

SpecSchema == InitSchema /\ [][NextSchema]_vars

(* ===================== serialization of a conversation ================== *)

\* the kinds of BaseMessage
MessageKinds ==
    {"system", "user", "assistant", "image", "audio", "video", "call", "result"}

\* the call a tool result at place i answers: the last call before it, a call
\* that is not part of the conversation when there is none
LastCallId(kinds, i) ==
    LET calls == {j \in 1..(i - 1) : kinds[j] = "call"}
    IN IF calls = {} THEN CallId(0)
       ELSE CallId(CHOOSE j \in calls : \A k \in calls : k <= j)

\* the conversation with the given kind of message at each place; every text
\* is a non-empty string
ConversationOf(kinds) ==
    [i \in 1..Len(kinds) |->
        CASE kinds[i] = "system" -> BaseSystemMessage(TextAt(i))
          [] kinds[i] = "user" -> [BaseText(TextAt(i)) EXCEPT !.role = "user"]
          [] kinds[i] = "assistant" -> BaseText(TextAt(i))
          [] kinds[i] \in {"image", "audio", "video"} -> BaseMediaMessage(kinds[i])
          [] kinds[i] = "call" -> BaseToolCall(CallId(i), "get_weather")
          [] kinds[i] = "result" ->
               BaseToolResponse(LastCallId(kinds, i), "get_weather", "sunny")]

\* the conversations serialized: one to MaxMessages messages
Conversations ==
    {ConversationOf(kinds) : kinds \in SeqsUpTo(MessageKinds, MaxMessages) \ {<<>>}}

HasText(m) == "text" \in DOMAIN m /\ m.text # ""

\* convertMessagesForOpenAI: one wire message for each message
convertMessagesForOpenAI(messages, developer) ==
    [i \in 1..Len(messages) |->
        LET message == messages[i]
        IN IF HasText(message) /\ message.role = "system"
           THEN [role |-> IF developer THEN "developer" ELSE "system",
                 content |-> message.text]
           ELSE IF HasText(message)
           THEN [role |-> message.role, content |-> message.text]
           ELSE IF message.kind \in {"image", "audio", "video"}
           THEN [role |-> message.role, content |-> message.kind]
           ELSE IF message.kind = "call"
           THEN OpenAIToolCallMessage([id |-> message.id, name |-> message.name])
           ELSE [role |-> "tool", tool_call_id |-> message.id,
                 content |-> JSONStringify(message.response)]]

\* a serialization that gives every content the role of the model
convertMessagesForGoogleAsModel(messages) ==
    LET kept == SelectSeq(messages, LAMBDA m : m.role # "system")
    IN [i \in 1..Len(kept) |->
           IF HasText(kept[i])
           THEN [role |-> "model", parts |-> <<[text |-> kept[i].text]>>]
           ELSE IF kept[i].kind \in {"image", "audio", "video"}
           THEN [role |-> "model", parts |-> <<[inlineData |-> kept[i].kind]>>]
           ELSE IF kept[i].kind = "call"
           THEN GoogleToolCallMessage(kept[i].name)
           ELSE GoogleToolResponseMessage(kept[i].name, kept[i].response)]

\* convertMessagesForGoogle: `systemMessage` of the value returned, the text
\* of the first message when that is a system message; "" stands for
\* undefined, which generateText treats alike
systemMessage(messages) ==
    IF messages[1].role = "system" THEN messages[1].text ELSE ""

\* the text a system message block is merged as in front of a user text
ClaudeSystemBlock(text) == "<system>" \o text

\* convertMessagesForGoogle: `messages` of the value returned; system messages
\* go to the systemMessage slot (the first one) or nowhere
convertMessagesForGoogle(messages) ==
    LET wire(message) ==
            IF HasText(message)
            THEN [role |-> IF message.role = "user" THEN "user" ELSE "model",
                  parts |-> <<[text |-> message.text]>>]
            ELSE IF message.kind \in {"image", "audio", "video"}
            THEN [role |-> IF message.role = "user" THEN "user" ELSE "model",
                  parts |-> <<[inlineData |-> message.kind]>>]
            ELSE IF message.kind = "call"
            THEN GoogleToolCallMessage(message.name)
            ELSE GoogleToolResponseMessage(message.name, message.response)
        kept == SelectSeq(messages, LAMBDA m : m.role # "system")
    IN [i \in 1..Len(kept) |-> wire(kept[i])]

\* convertMessagesForClaude reads `content.image_url.url` of every user
\* message that has a `content`: a TypeError for an audio or video message
ClaudeCannotSerialize(messages) ==
    \E i \in 1..Len(messages) : messages[i].kind \in {"audio", "video"}

\* convertMessagesForClaude: system messages are merged into the first user
\* text when that is the first message or follows a first system message
convertMessagesForClaude(messages) ==
    LET systemText == \E j \in 1..Len(messages) : messages[j].role = "system"
        places == {i \in 1..Len(messages) : messages[i].role # "system"}
        keptAt == SelectSeq([i \in 1..Len(messages) |-> i], LAMBDA i : i \in places)
        wire(i) ==
            LET message == messages[i]
            IN IF message.kind = "image"
               THEN [role |-> "user", content |-> <<[type |-> "image"]>>]
               ELSE IF message.kind = "text" /\ message.role = "user"
               THEN ClaudeStringMessage("user",
                        IF systemText /\ (i = 1 \/ (i = 2 /\ messages[1].role = "system"))
                        THEN ClaudeSystemBlock(message.text) ELSE message.text)
               ELSE IF message.kind = "text"
               THEN ClaudeStringMessage("assistant", message.text)
               ELSE IF message.kind = "call"
               THEN ClaudeAssistantMessage(<<ClaudeToolUse(message.id, message.name)>>)
               ELSE ClaudeToolResultMessage(message.id, message.response)
    IN [k \in 1..Len(keptAt) |-> wire(keptAt[k])]

\* the conversation is serialized and the result converted back
OpenAIRoundTrip ==
    /\ codec = "none"
    /\ codec' = "openai"
    /\ restored' = [done |-> TRUE, raised |-> FALSE,
                    messages |-> convertMessagesFromOpenAI(
                                     convertMessagesForOpenAI(conversation, oSeries))]
    /\ UNCHANGED <<oSeries, conversation, payload, besideConv>>

GoogleRoundTrip ==
    /\ codec = "none"
    /\ codec' = "google"
    /\ restored' = [done |-> TRUE, raised |-> FALSE,
                    messages |-> convertMessagesFromGoogle(
                                     <<>>, convertMessagesForGoogle(conversation))]
    /\ UNCHANGED <<oSeries, conversation, payload, besideConv>>

ClaudeRoundTrip ==
    /\ codec = "none"
    /\ codec' = "claude"
    /\ restored' = IF ClaudeCannotSerialize(conversation)
                   THEN [done |-> TRUE, raised |-> TRUE]
                   ELSE [done |-> TRUE, raised |-> FALSE,
                         messages |-> convertMessagesFromClaude(
                                          convertMessagesForClaude(conversation), <<>>)]
    /\ UNCHANGED <<oSeries, conversation, payload, besideConv>>

InitConv ==
    /\ NoRun
    /\ NoRetryCall
    /\ NoTranslation
    /\ codec = "none"
    /\ oSeries \in BOOLEAN
    /\ conversation \in Conversations
    /\ restored = [done |-> FALSE]
    /\ payload = [done |-> FALSE]
    /\ NoSignalCall
    /\ NoPacing

NextConv ==
    \/ OpenAIRoundTrip
    \/ GoogleRoundTrip
    \/ ClaudeRoundTrip

SpecConv == InitConv /\ [][NextConv]_vars

(* ------------- generateText: the conversion of options.messages --------- *)

\* the payload generateText builds before its first provider call
Payload(absent, messages) ==
    [done |-> TRUE, absent |-> absent, raised |-> FALSE, messages |-> messages]

\* a TypeError left generateText before the first provider call
NoPayload(absent) == [done |-> TRUE, absent |-> absent, raised |-> TRUE]

\* convertMessagesForGoogle reads `messages[0].role` of the list it is given
GoogleCannotSerialize(messages) == messages = <<>>

\* OpenAIModel.generateText, `convertMessagesForOpenAI(options.messages)`:
\* `if (!messages) return openAImessages`, else the loop over the messages
OpenAISerialize ==
    /\ codec = "none"
    /\ codec' = "openai"
    /\ \E absent \in BOOLEAN :
         payload' = Payload(absent, IF absent THEN <<>>
                                    ELSE convertMessagesForOpenAI(conversation, oSeries))
    /\ UNCHANGED <<oSeries, conversation, restored, besideConv>>

\* GoogleModel.generateText, `convertMessagesForGoogle(options.messages || [])`
GoogleSerialize ==
    /\ codec = "none"
    /\ codec' = "google"
    /\ \E absent \in BOOLEAN :
         LET messages == IF absent THEN <<>> ELSE conversation
         IN payload' = IF GoogleCannotSerialize(messages) THEN NoPayload(absent)
                       ELSE Payload(absent, convertMessagesForGoogle(messages))
    /\ UNCHANGED <<oSeries, conversation, restored, besideConv>>

\* ClaudeModel.generateText, `convertMessagesForClaude(options.messages)`:
\* `if (!messages || messages.length === 0) return []`
ClaudeSerialize ==
    /\ codec = "none"
    /\ codec' = "claude"
    /\ \E absent \in BOOLEAN :
         payload' = IF absent \/ conversation = <<>> THEN Payload(absent, <<>>)
                    ELSE IF ClaudeCannotSerialize(conversation) THEN NoPayload(absent)
                    ELSE Payload(absent, convertMessagesForClaude(conversation))
    /\ UNCHANGED <<oSeries, conversation, restored, besideConv>>

\* options.messages: a conversation, the empty list, or (in the action) none
InitEntry ==
    /\ NoRun
    /\ NoRetryCall
    /\ NoTranslation
    /\ codec = "none"
    /\ oSeries \in BOOLEAN
    /\ conversation \in Conversations \cup {<<>>}
    /\ restored = [done |-> FALSE]
    /\ payload = [done |-> FALSE]
    /\ NoSignalCall
    /\ NoPacing

NextEntry ==
    \/ OpenAISerialize
    \/ GoogleSerialize
    \/ ClaudeSerialize

SpecEntry == InitEntry /\ [][NextEntry]_vars

(* ================================ Signal ================================ *)

\* a promise waitUntilReset returned: its state, with the history of whether
\* the signal was set at the call and whether clear() was called since
Promise(state, whenSet) == [state |-> state, whenSet |-> whenSet, cleared |-> FALSE]

\* clear() was called: history of the promises returned while the signal was set
NoteClear(ps) ==
    [i \in 1..Len(ps) |-> IF ps[i].whenSet THEN [ps[i] EXCEPT !.cleared = TRUE] ELSE ps[i]]

\* `this._resolver()`: the promise whose resolve function is stored is resolved
Resolve(ps, r) ==
    IF r = 0 THEN ps ELSE [ps EXCEPT ![r].state = "resolved"]

\* Signal.set()
set ==
    /\ sigValue' = TRUE
    /\ lastCall' = "set"
    /\ UNCHANGED <<sigResolver, promises, isSetReturned, besideSignal>>

\* Signal.clear()
clear ==
    /\ sigValue' = FALSE
    /\ promises' = NoteClear(Resolve(promises, sigResolver))
    /\ sigResolver' = 0
    /\ lastCall' = "clear"
    /\ UNCHANGED <<isSetReturned, besideSignal>>

\* Signal.isSet()
isSet ==
    /\ isSetReturned' = sigValue
    /\ lastCall' = "isSet"
    /\ UNCHANGED <<sigValue, sigResolver, promises, besideSignal>>

\* waitUntilReset(): a resolved promise when the signal is clear, else a new
\* promise whose resolve function replaces the one stored
waitUntilReset ==
    /\ Len(promises) < MaxWaits
    /\ IF ~sigValue
       THEN /\ promises' = Append(promises, Promise("resolved", FALSE))
            /\ UNCHANGED sigResolver
       ELSE /\ promises' = Append(promises, Promise("pending", TRUE))
            /\ sigResolver' = Len(promises) + 1
    /\ lastCall' = "waitUntilReset"
    /\ UNCHANGED <<sigValue, isSetReturned, besideSignal>>

\* new Signal(_value = false)
InitSignal ==
    /\ NoRun
    /\ NoRetryCall
    /\ NoTranslation
    /\ NoConversion
    /\ NoPacing
    /\ sigValue \in BOOLEAN
    /\ sigResolver = 0
    /\ promises = <<>>
    /\ lastCall = "none"
    /\ isSetReturned = FALSE

NextSignal ==
    \/ set
    \/ clear
    \/ isSet
    \/ waitUntilReset

SpecSignal == InitSignal /\ [][NextSignal]_vars

(* ====================== ClaudeModel.rateLimitInfo ======================= *)

\* the generateText calls under way on ClaudeModel instances; rateLimitInfo is
\* static, so all of them read and write the same object
Runs == {1, 2}

\* `remainingTokens: 20000`, restored whenever the limit is taken to have reset
DefaultTokens == 20000
DefaultInfo == [remainingTokens |-> DefaultTokens, resetTime |-> 0]

\* the buffer of `remainingTokens > estimatedInputTokens + 2000`
TokenBuffer == 2000

\* `let retryDelay = 2000`
InitialRetryDelay == 2000

\* estimatedInputTokens of a run: the base cost of 1000 and a quarter of the
\* length of the conversation
Estimates == {1000, 19000}

\* response.usage.input_tokens; 0 stands for a response without usage
InputTokens == {0, 1200}

\* the reset time of a 429 response lies this far ahead
ResetAfterMS == 6000

\* retry-after of a 429 response, in seconds
RetryAfterS == 4

\* error.headers is undefined
NoHeaders ==
    [present |-> FALSE, remaining |-> Undefined, reset |-> Undefined,
     retryAfter |-> Undefined]

\* error.headers of a 429 response at the given time: none, or the
\* anthropic-ratelimit-input-tokens-remaining and -reset pair without or with
\* retry-after
ErrorHeaders(now) ==
    {NoHeaders} \cup
    {[present |-> TRUE, remaining |-> 0, reset |-> now + ResetAfterMS,
      retryAfter |-> after] : after \in {Undefined, RetryAfterS}}

\* updateRateLimitInfo(headers); lastChecked is written and never read
updateRateLimitInfo(info, headers) ==
    IF ~headers.present THEN info
    ELSE [remainingTokens |-> IF headers.remaining # Undefined
                              THEN headers.remaining ELSE info.remainingTokens,
          resetTime |-> IF headers.reset # Undefined
                        THEN headers.reset ELSE info.resetTime]

\* a wait that ignores the retry-after header
ClaudeWaitTimeBackoffOnly(headers, retryDelay) == retryDelay

\* `error.headers?.['retry-after'] ? parseInt(...) * 1000 : retryDelay`
ClaudeWaitTime(headers, retryDelay) ==
    IF headers.present /\ headers.retryAfter # Undefined
    THEN headers.retryAfter * 1000
    ELSE retryDelay

\* history of a run: no call of it was rejected with status 429 yet
NoRejection ==
    [headers |-> NoHeaders, info |-> DefaultInfo, at |-> 0, waitTime |-> Undefined]

\* a generateText call before its checkRateLimits; `calls`, `rejection` and
\* `usage` are history: the provider calls issued, the last one rejected with
\* 429, and the input_tokens of the response
NewRun(estimate) ==
    [pc |-> "start", estimate |-> estimate, seen |-> DefaultInfo, wakeAt |-> 0,
     retryCount |-> 0, retryDelay |-> InitialRetryDelay, status |-> 0,
     calls |-> 0, rejection |-> NoRejection, usage |-> 0]

\* `this.provider.messages.create(...)` is called
Create(run) ==
    [run EXCEPT !.pc = "calling", !.calls = @ + 1]

\* checkRateLimits up to its return or its `await`, and when it returns the
\* first provider call of the run
CheckRateLimits(r) ==
    /\ claudeRuns[r].pc = "start"
    /\ LET now == clock
           info == IF now > rateLimitInfo.resetTime THEN DefaultInfo
                   ELSE rateLimitInfo
           estimatedInputTokens == claudeRuns[r].estimate
       IN IF info.remainingTokens > estimatedInputTokens + TokenBuffer
          THEN /\ rateLimitInfo' =
                    [info EXCEPT !.remainingTokens = @ - estimatedInputTokens]
               /\ claudeRuns' = [claudeRuns EXCEPT ![r] = Create(@)]
          ELSE IF info.resetTime > 0 /\ info.resetTime - now > 0
          THEN /\ rateLimitInfo' = info
               /\ claudeRuns' = [claudeRuns EXCEPT ![r] =
                                    [@ EXCEPT !.pc = "paceWait", !.seen = info,
                                              !.wakeAt = info.resetTime]]
          ELSE /\ rateLimitInfo' = info
               /\ claudeRuns' = [claudeRuns EXCEPT ![r] = Create(@)]
    /\ UNCHANGED <<clock, rateLimited, lostUpdates, besidePacing>>

\* the timer of checkRateLimits fires: both fields are reset, whatever they
\* hold by now, and the first provider call of the run follows
PaceWake(r) ==
    /\ claudeRuns[r].pc = "paceWait"
    /\ clock >= claudeRuns[r].wakeAt
    /\ rateLimitInfo' = DefaultInfo
    /\ lostUpdates' = IF rateLimitInfo \in {claudeRuns[r].seen, DefaultInfo}
                      THEN lostUpdates
                      ELSE lostUpdates \cup {rateLimitInfo}
    /\ claudeRuns' = [claudeRuns EXCEPT ![r] = Create(@)]
    /\ UNCHANGED <<clock, rateLimited, besidePacing>>

\* the provider call resolves: the usage it reports is subtracted
CallSucceeds(r) ==
    /\ claudeRuns[r].pc = "calling"
    /\ \E input_tokens \in InputTokens :
         /\ rateLimitInfo' = [rateLimitInfo EXCEPT !.remainingTokens =
                                 IF input_tokens # 0 THEN @ - input_tokens ELSE @]
         /\ claudeRuns' = [claudeRuns EXCEPT ![r] =
                              [@ EXCEPT !.pc = "responded", !.usage = input_tokens]]
    /\ UNCHANGED <<clock, rateLimited, lostUpdates, besidePacing>>

\* the provider call is rejected with status 429
CallRateLimited(r) ==
    /\ claudeRuns[r].pc = "calling"
    /\ rateLimited < MaxRateLimited
    /\ rateLimited' = rateLimited + 1
    /\ \E headers \in ErrorHeaders(clock) :
         LET run == claudeRuns[r]
             info == updateRateLimitInfo(rateLimitInfo, headers)
             count == run.retryCount + 1
             waitTime == ClaudeWaitTime(headers, run.retryDelay)
         IN /\ rateLimitInfo' = info
            /\ claudeRuns' = [claudeRuns EXCEPT ![r] =
                 IF count > ClaudeMaxRetries
                 THEN [run EXCEPT !.pc = "failed", !.retryCount = count,
                                  !.status = 429,
                                  !.rejection =
                                      [headers |-> headers, info |-> info,
                                       at |-> clock, waitTime |-> Undefined]]
                 ELSE [run EXCEPT !.pc = "retryWait", !.retryCount = count,
                                  !.wakeAt = clock + waitTime,
                                  !.rejection =
                                      [headers |-> headers, info |-> info,
                                       at |-> clock, waitTime |-> waitTime]]]
    /\ UNCHANGED <<clock, lostUpdates, besidePacing>>

\* the provider call is rejected with another status: the error is thrown
CallFails(r) ==
    /\ claudeRuns[r].pc = "calling"
    /\ claudeRuns' = [claudeRuns EXCEPT ![r] =
                         [@ EXCEPT !.pc = "failed", !.status = 500]]
    /\ UNCHANGED <<rateLimitInfo, clock, rateLimited, lostUpdates, besidePacing>>

\* the timer of the retry loop fires: `retryDelay *= 2` and the next call
RetryWake(r) ==
    /\ claudeRuns[r].pc = "retryWait"
    /\ clock >= claudeRuns[r].wakeAt
    /\ claudeRuns' = [claudeRuns EXCEPT ![r] =
                         Create([@ EXCEPT !.retryDelay = @ * 2])]
    /\ UNCHANGED <<rateLimitInfo, clock, rateLimited, lostUpdates, besidePacing>>

\* time passes: up to the next timer, or when no timer is armed to just
\* beyond the reset time
Advance ==
    LET timers == {claudeRuns[r].wakeAt :
                      r \in {q \in Runs : claudeRuns[q].pc \in {"paceWait", "retryWait"}}}
        instants == IF timers = {} THEN {rateLimitInfo.resetTime + 1} ELSE timers
    IN /\ \E t \in instants :
            /\ t > clock
            /\ \A w \in timers : t <= w
            /\ clock' = t
       /\ UNCHANGED <<rateLimitInfo, claudeRuns, rateLimited, lostUpdates,
                      besidePacing>>

InitPacing ==
    /\ NoRun
    /\ NoRetryCall
    /\ NoTranslation
    /\ NoConversion
    /\ NoSignalCall
    /\ rateLimitInfo = DefaultInfo
    /\ clock = 1
    /\ claudeRuns \in [Runs -> {NewRun(e) : e \in Estimates}]
    /\ rateLimited = 0
    /\ lostUpdates = {}

NextPacing ==
    \/ \E r \in Runs : CheckRateLimits(r)
    \/ \E r \in Runs : PaceWake(r)
    \/ \E r \in Runs : CallSucceeds(r)
    \/ \E r \in Runs : CallRateLimited(r)
    \/ \E r \in Runs : CallFails(r)
    \/ \E r \in Runs : RetryWake(r)
    \/ Advance

SpecPacing == InitPacing /\ [][NextPacing]_vars

(* ============================== properties ============================== *)

\* the canonical form of what has been added so far
Canonical ==
    CASE adapter = "openai" -> convertMessagesFromOpenAI(addedMessages)
      [] adapter = "google" -> convertMessagesFromGoogle(functionCallIDs, addedMessages)
      [] adapter = "claude" -> convertMessagesFromClaude(addedMessages, toolNameMap)

Kinds(msgs) == [i \in 1..Len(msgs) |-> msgs[i].kind]

CountKind(msgs, kind) == Cardinality({i \in 1..Len(msgs) : msgs[i].kind = kind})

\* the budget the options ask for, 5 when the option is omitted
AskedRoundtrips ==
    IF maxToolRoundtrips = Undefined THEN DefaultRoundtrips ELSE maxToolRoundtrips

\* C1: a run issues at most maxToolRoundtrips + 1 provider calls, for every
\* maxToolRoundtrips >= 0, and never ends by raising when the budget is spent
\* (a run raises only when a provider call has failed or its response lacks
\* what the adapter reads).
C1_RoundBudget ==
    /\ providerCalls <= AskedRoundtrips + 1
    /\ (pc = "raised" => (callFailed \/ malformed))

\* C2: with maxToolRoundtrips = 0 exactly one provider call is issued, also
\* when its response asks for tools: a run that was not stopped at entry and
\* whose provider call did not fail ends after one call and no second call is
\* ever issued.
C2_ZeroRoundtrips ==
    maxToolRoundtrips = 0 =>
        /\ providerCalls <= 1
        /\ (pc = "done" /\ ~signalAtEntry /\ ~callFailed => Len(responses) = 1)

\* C3: once a tool of the run has set forceStop, no provider call is issued
\* any more, whatever budget remains.
C3_ForceStopEndsCalls ==
    [][stopRequested' => providerCalls' = providerCalls]_vars

\* C3 witness: a run ended by forceStop with budget left and the signal clear
C3_Witness ==
    /\ pc = "done"
    /\ stopRequested
    /\ ~signal
    /\ maxToolRoundtrips = Undefined
    /\ providerCalls = 1
    /\ CountKind(result.addedMessages, "result") = 2

C5_CancelAtRoundBoundary ==
    /\ ~signalAtIssue
    /\ (pc = "done" /\ ~callFailed) =>
         /\ Len(responses) = providerCalls
         /\ CountKind(result.addedMessages, "result") = callsRequested
         /\ result.addedMessages = Canonical

\* C5 witness: the signal was set while a round was in progress; the round's
\* tool results were added and the run then returned with budget left
C5_Witness ==
    /\ adapter = "google"
    /\ pc = "done"
    /\ signal
    /\ ~stopRequested
    /\ providerCalls = 1
    /\ roundtrips <= Budget
    /\ Len(result.addedMessages) >= 2
    /\ result.addedMessages[Len(result.addedMessages)].kind = "result"
    /\ result.addedMessages[Len(result.addedMessages)].response = "sunny"

\* C6: every call of a tool that is not registered is followed by a tool
\* result with the same call id that carries the "not found" indicator.
C6_NotFoundIndicator ==
    LET msgs == Canonical
    IN \A i \in 1..Len(msgs) :
        (msgs[i].kind = "call" /\ msgs[i].name \notin Registry) =>
            \E j \in (i + 1)..Len(msgs) :
                /\ msgs[j].kind = "result"
                /\ msgs[j].id = msgs[i].id
                /\ msgs[j].response = ToolNotFound

\* C7: with maxToolRoundtrips >= 1 or omitted, a first response asking for one
\* registered tool and a second response of plain text give two provider
\* calls and the added messages call, result, text (the tool not forcing a
\* stop, the signal staying clear and no provider call failing).
C7_ToolThenText ==
    ( /\ pc = "done"
      /\ ~callFailed
      /\ maxToolRoundtrips # 0
      /\ ~stopRequested
      /\ ~signal
      /\ Len(responses) >= 1
      /\ responses[1] = "call"
      /\ (Len(responses) >= 2 => responses[2] = "text") ) =>
        /\ providerCalls = 2
        /\ Kinds(result.addedMessages) = <<"call", "result", "text">>

C9_TextOfLastMessage ==
    (pc = "done" /\ ~callFailed) =>
        result.text =
            (IF Len(result.addedMessages) = 0 THEN ""
             ELSE LET last == result.addedMessages[Len(result.addedMessages)]
                  IN IF last.kind = "text" /\ last.text # NullContent
                     THEN last.text ELSE "")

\* C10: every ToolResultMessage added so far carries the call id of a
\* ToolCallMessage that stands earlier in the list (in the Google adapter the
\* id generated for the call).
C10_ResultRefersToCall ==
    LET msgs == Canonical
    IN \A j \in 1..Len(msgs) :
        msgs[j].kind = "result" =>
            /\ msgs[j].id # ""
            /\ \E i \in 1..(j - 1) :
                   msgs[i].kind = "call" /\ msgs[i].id = msgs[j].id

\* C10 witness: a Google run returned two tool results of one round
C10_Witness ==
    /\ adapter = "google"
    /\ pc = "done"
    /\ Kinds(result.addedMessages) = <<"call", "result", "call", "result">>
    /\ result.addedMessages[2].id # result.addedMessages[4].id

\* C11: a fatal failure of a provider call leaves generateText as a raised
\* error in every adapter: the caller receives no generateTextReturn value.
C11_FatalFailureRaises ==
    callFailed => (pc = "raised" /\ result = NoResult)

\* C12: the delay waited before the k-th retry is the override's value when
\* the override returns one and RetryDelayMS * RetryBackoffFactor^(k-1)
\* otherwise (250 and 2 when omitted); with MaxRetries = 2, RetryDelayMS = 100,
\* RetryBackoffFactor = 2 and two retryable failures followed by a success the
\* delays are 100, 200 and the value of the third attempt is returned.
C12_RetryDelay ==
    LET base == IF RetryDelayMS = Undefined THEN 250 ELSE RetryDelayMS
        factor == IF RetryBackoffFactor = Undefined THEN 2 ELSE RetryBackoffFactor
        given == getRetryDelayMs.passed /\ getRetryDelayMs.returns # Undefined
    IN /\ \A k \in 1..Len(waits) :
             waits[k] = (IF given THEN getRetryDelayMs.returns
                         ELSE base * Pow(factor, k - 1))
       /\ (phase = "sleeping" => waits[Len(waits)] > 0)
       /\ ( /\ MaxRetries = 2 /\ RetryDelayMS = 100 /\ RetryBackoffFactor = 2
            /\ ~given
            /\ phase = "returned"
            /\ invocations = 3 ) =>
              (waits = <<100, 200>> /\ outcome = [kind |-> "value", attempt |-> 3])

\* C12 witness: the example's run has returned
C12_Witness ==
    /\ MaxRetries = 2 /\ RetryDelayMS = 100 /\ RetryBackoffFactor = 2
    /\ ~getRetryDelayMs.passed
    /\ shouldRetryError = "default"
    /\ phase = "returned"
    /\ waits = <<100, 200>>
    /\ outcome = [kind |-> "value", attempt |-> 3]

\* C13: the operation is invoked at most MaxRetries + 1 times (once when
\* MaxRetries is omitted); when every attempt failed with a retryable error,
\* the error thrown is the error of the last attempt; a successful attempt
\* returns its value and no attempt follows it.
C13_AttemptsAndLastError ==
    LET asked == IF MaxRetries = Undefined THEN 0 ELSE MaxRetries
    IN /\ invocations <= asked + 1
       /\ (MaxRetries = Undefined /\ phase # "idle" => invocations = 1)
       /\ (phase = "thrown" /\ Len(waits) = asked) =>
              /\ invocations = asked + 1
              /\ outcome.attempt = invocations
              /\ outcome.kind = outcomes[invocations].kind
       /\ phase = "returned" =>
              outcome = [kind |-> "value", attempt |-> invocations]

\* C13 witness: three attempts failed with retryable errors of different
\* kinds and the call has thrown
C13_Witness ==
    /\ MaxRetries = 2
    /\ phase = "thrown"
    /\ invocations = 3
    /\ outcomes[1].kind # outcomes[3].kind
    /\ outcome.attempt = 3

\* C14: with RequestTimeoutMS > 0 an attempt ends with a TimeoutError when the
\* timer fires first, and the value its operation produces later is never
\* returned; when the operation settles first its outcome is the attempt's and
\* the timer is cleared; with RequestTimeoutMS 0 or omitted there is no timer
\* and an attempt ends only with the operation's outcome.
C14_TimeoutRace ==
    /\ (RequestTimeoutMS \in {Undefined, 0}) =>
           /\ ~timeoutId
           /\ \A i \in 1..Len(outcomes) : outcomes[i].by = "operation"
    /\ (RequestTimeoutMS # Undefined /\ RequestTimeoutMS > 0 /\ phase = "awaiting")
           => timeoutId
    /\ phase # "awaiting" => ~timeoutId
    /\ (outcomes # <<>> /\ outcomes[Len(outcomes)].by = "timer") =>
           lastError = [kind |-> "TimeoutError", attempt |-> Len(outcomes)]
    /\ phase = "returned" =>
           outcomes[outcome.attempt] = [by |-> "operation", kind |-> "value"]

\* C14 witness: the timer of the first attempt fired, its operation settled
\* afterwards and the call returned the value of the second attempt
C14_Witness ==
    /\ phase = "returned"
    /\ outcomes[1].by = "timer"
    /\ outstanding = 0
    /\ outcome.attempt = 2

\* C20: in the Claude adapter the pacing step is performed before each
\* provider call of a run, the calls of later rounds and the retries included.
C20_PacingBeforeEveryCall ==
    adapter = "claude" =>
        pacingChecks >= providerCalls +
                        (IF retryCount > ClaudeMaxRetries THEN ClaudeMaxRetries
                         ELSE retryCount)

\* a schema was returned
Translated == translation.done /\ ~translation.raised

RangeOf(seq) == {seq[i] : i \in 1..Len(seq)}

\* the fields of the object and of its nested objects are in `required`
\* exactly when they are neither a ZodOptional nor a ZodDefault
RECURSIVE RequiredMatches(_, _)
RequiredMatches(zod, out) ==
    /\ RangeOf(out.required) \subseteq {FieldName(i) : i \in 1..Len(zod.shape)}
    /\ \A i \in 1..Len(zod.shape) :
         /\ (FieldName(i) \in RangeOf(out.required)) <=>
                (zod.shape[i].typeName \notin {"ZodOptional", "ZodDefault"})
         /\ zod.shape[i].typeName = "ZodObject" =>
                RequiredMatches(zod.shape[i], out.properties[i].value)

\* C15: in every adapter and for every object node of the output, a field is
\* in `required` if and only if it is neither wrapped in optional nor carries
\* a default.
C15_RequiredIffPlain ==
    Translated => RequiredMatches(parameters, translation.schema)

\* C15 witness: a plain object field whose own field carries a default was
\* translated: the outer field is required, the inner one is not
C15_Witness ==
    /\ Translated
    /\ translator = "claude"
    /\ parameters = ZodObject(<<ZodObject(<<ZodDefault([typeName |-> "ZodNumber"])>>)>>)
    /\ translation.schema.required = <<"type">>
    /\ translation.schema.properties[1].value.required = <<>>

\* every object node, top-level or nested, has at least one property
RECURSIVE NoEmptyObject(_)
NoEmptyObject(node) ==
    Has(node, "properties") =>
        /\ Len(node.properties) >= 1
        /\ \A i \in 1..Len(node.properties) : NoEmptyObject(node.properties[i].value)

\* C16: in every adapter every object node of the translated parameter schema
\* has at least one property (a placeholder when no field is declared).
C16_NoEmptyObject ==
    Translated => NoEmptyObject(translation.schema)

\* every node with properties has a type, every property has a type, every
\* array property has items with a type
RECURSIVE WellTyped(_)
WellTyped(node) ==
    Has(node, "properties") =>
        /\ Has(node, "type")
        /\ \A i \in 1..Len(node.properties) :
             LET prop == node.properties[i].value
             IN /\ Has(prop, "type")
                /\ prop.type = "array" => (Has(prop, "items") /\ Has(prop.items, "type"))
                /\ WellTyped(prop)

\* C17: in the translated schema every node with properties has a type, every
\* property has a type (string when none is resolved, also for the field named
\* `type`), and every array property has items ({type: string} when the
\* element type is not resolved).
C17_TypesAndItems ==
    Translated =>
        /\ WellTyped(translation.schema)
        /\ \A i \in 1..Len(parameters.shape) :
             LET field == parameters.shape[i]
                 prop == translation.schema.properties[i].value
             IN /\ translation.schema.properties[i].key = FieldName(i)
                /\ field.typeName = "ZodAny" => prop = [type |-> "string"]
                /\ field.typeName = "ZodArray" =>
                       prop = [type |-> "array",
                               items |-> [type |-> zodTypeToSchemaType(field.type.typeName)]]
                /\ ( /\ field.typeName \in {"ZodOptional", "ZodDefault"}
                     /\ field.innerType.typeName = "ZodArray" ) =>
                       prop = [type |-> "array", items |-> [type |-> "string"]]

\* C17 witness: a field named `type` that is an optional array has been
\* translated to an array of strings
C17_Witness ==
    /\ Translated
    /\ translator = "openai"
    /\ parameters = ZodObject(<<ZodOptional(ZodArray([typeName |-> "ZodNumber"]))>>)
    /\ translation.schema.properties[1] =
           [key |-> "type", value |-> [type |-> "array", items |-> [type |-> "string"]]]

\* role and payload kind of each message, in order
RolesAndKinds(messages) ==
    [i \in 1..Len(messages) |-> <<messages[i].role, messages[i].kind>>]

GeneratedOnly(messages, withUser) ==
    \A i \in 1..Len(messages) :
        \/ messages[i].kind = "text" /\ messages[i].role = "assistant"
        \/ messages[i].kind = "text" /\ messages[i].role = "user" /\ withUser
        \/ messages[i].kind = "call"
        \/ /\ messages[i].kind = "result"
           /\ \E j \in 1..(i - 1) :
                  messages[j].kind = "call" /\ messages[j].id = messages[i].id

C19_WaitUntilReset ==
    /\ \A i \in 1..Len(promises) :
           /\ ~promises[i].whenSet => promises[i].state = "resolved"
           /\ (promises[i].whenSet /\ ~promises[i].cleared) => promises[i].state = "pending"
           /\ (promises[i].whenSet /\ promises[i].cleared) => promises[i].state = "resolved"
    /\ lastCall = "clear" => ~sigValue

\* a timeout-kind failure: a TimeoutError instance or an error named so
TimeoutKind(e) == e.kind \in {"TimeoutError", "NamedTimeoutError"}

\* the predicate passed says no / yes to the failure
Refused(e) ==
    \/ shouldRetryError = "never"
    \/ shouldRetryError = "default" /\ ~TimeoutKind(e)

AskedRetries == IF MaxRetries = Undefined THEN 0 ELSE MaxRetries

LastAttemptFailed ==
    outcomes # <<>> /\ outcomes[Len(outcomes)].kind # "value"

\* C27: a failure the retry predicate refuses is thrown at once: it is the
\* call's outcome, no delay was computed or waited for it, nothing was
\* notified for it and no attempt follows, whatever retries remain; with the
\* default predicate the refused failures are exactly those that are not
\* timeout-kind, so a timeout-kind failure with retries left is retried.
C27_RefusedThrownAtOnce ==
    LastAttemptFailed =>
        /\ Refused(lastError) =>
               /\ phase = "thrown"
               /\ outcome = lastError
               /\ invocations = Len(outcomes)
               /\ Len(waits) = Len(outcomes) - 1
               /\ Len(notifications) <= Len(outcomes) - 1
        /\ (~Refused(lastError) /\ Len(outcomes) <= AskedRetries) =>
               /\ phase # "thrown"
               /\ Len(waits) = Len(outcomes)

\* C27 witness: under the default predicate the first attempt failed with an
\* error that is not timeout-kind and the call has thrown with two retries left
C27_Witness ==
    /\ shouldRetryError = "default"
    /\ MaxRetries = 2
    /\ phase = "thrown"
    /\ invocations = 1
    /\ outcome = [kind |-> "Error", attempt |-> 1]
    /\ waits = <<>>

\* C28: RetryNotified is called once for every retry and for nothing else:
\* the k-th call has attempt k, the configured maxRetries, the delay of the
\* k-th retry and the error of the k-th attempt; it has been made when the
\* wait begins; a failure that ends the call and a success add no call.
C28_NotifiedOncePerRetry ==
    /\ ~RetryNotified => notifications = <<>>
    /\ RetryNotified =>
         /\ Len(notifications) = Len(waits)
         /\ \A k \in 1..Len(notifications) :
                notifications[k] =
                    [attempt |-> k, maxRetries |-> AskedRetries,
                     delayMs |-> waits[k],
                     error |-> [kind |-> outcomes[k].kind, attempt |-> k]]
         /\ phase \in {"awaiting", "sleeping"} => Len(notifications) = Len(outcomes)
         /\ phase \in {"thrown", "returned"} => Len(notifications) = Len(outcomes) - 1

\* C28 witness: two retries were notified and the third attempt succeeded
C28_Witness ==
    /\ RetryNotified
    /\ phase = "returned"
    /\ Len(notifications) = 2
    /\ notifications[2].attempt = 2
    /\ notifications[2].delayMs = waits[2]

\* the texts of the TextMessages of a list
TextsOf(msgs) ==
    LET texts == SelectSeq(msgs, LAMBDA m : m.kind = "text")
    IN [i \in 1..Len(texts) |-> texts[i].text]

\* the tool results appended so far: the OpenAI tool messages, the Google
\* function messages, the Claude user messages
Results ==
    Cardinality({i \in 1..Len(addedMessages) :
                    addedMessages[i].role \in {"tool", "function", "user"}})

\* C22: the tool calls are executed in the order they were requested and one
\* at a time: an execution is started only when the results of all earlier
\* calls have been appended, and while none is in progress the result of
\* every execution started is in the list.
C22_SequentialTools ==
    /\ \A i \in 2..Len(started) : started[i - 1] < started[i]
    /\ started # <<>> =>
           IF pc = "executing" THEN Results = started[Len(started)] - 1
           ELSE Results >= started[Len(started)]
    /\ pc = "executing" => started # <<>>

\* C22 witness: the two registered tools of one response have been executed
C22_Witness ==
    /\ pc = "done"
    /\ Len(responses) = 1
    /\ started = <<1, 2>>
    /\ CountKind(result.addedMessages, "result") = 2

\* C23: with textMessageGenerated passed, a run that returned (no provider
\* call failed, no response was malformed) has called it once for every text
\* the responses held and once for every TextMessage of addedMessages, in
\* order; while a callback is in progress no tool of that response has been
\* started and no later callback has been made.
C23_CallbackPerText ==
    textMessageGenerated =>
        /\ (pc = "done" /\ ~callFailed /\ ~malformed) =>
               /\ callbacks = TextsOf(result.addedMessages)
               /\ SelectSeq(callbacks, LAMBDA t : t # NullContent) = textsReturned
        /\ pc = "reporting" =>
               /\ reporting # <<>>
               /\ callbacks[Len(callbacks)] = Head(reporting)
               /\ (started # <<>> =>
                       started[Len(started)] <= callsRequested - Len(pending))

\* C24: a response that lacks what the adapter reads never makes the run
\* raise: the run returns a result whose text is empty.
C24_MalformedDegrades ==
    malformed => (pc = "done" /\ result.text = "")

C30_ResultNamesCall ==
    LET msgs == Canonical
    IN \A j \in 1..Len(msgs) : \A i \in 1..Len(msgs) :
           (msgs[j].kind = "result" /\ msgs[i].kind = "call" /\ msgs[i].id = msgs[j].id)
               => msgs[j].name = msgs[i].name

\* the request the adapter sends for the conversation carries the text of the
\* leading system message: as a system or developer message (OpenAI), in the
\* system instruction (Google), merged in front of a user text (Claude)
SystemTextSent ==
    CASE codec = "openai" ->
           LET wire == convertMessagesForOpenAI(conversation, oSeries)
           IN \E k \in 1..Len(wire) :
                  /\ wire[k].role \in {"system", "developer"}
                  /\ wire[k].content = conversation[1].text
      [] codec = "google" -> systemMessage(conversation) = conversation[1].text
      [] codec = "claude" ->
           LET wire == convertMessagesForClaude(conversation)
           IN \E k \in 1..Len(wire) :
                  /\ wire[k].role = "user"
                  /\ "content_string" \in DOMAIN wire[k]
                  /\ \E i \in 1..Len(conversation) :
                         /\ HasText(conversation[i])
                         /\ wire[k].content_string =
                                ClaudeSystemBlock(conversation[i].text)

\* C29: for every conversation that starts with a system message and has a
\* message of role user, the request built by the adapter carries the system
\* text, whatever the kind of the first user message and however many system
\* messages there are
C29_SystemTextSent ==
    (/\ restored.done
     /\ ~restored.raised
     /\ conversation[1].role = "system"
     /\ \E i \in 1..Len(conversation) : conversation[i].role = "user") =>
        SystemTextSent


\* C21: while several runs use the Claude adapter, no update of the shared
\* rate-limit state is lost: no run writes over the decrement, the usage
\* correction or the header-derived update another run made since the
\* writing run read the state
C21_NoLostUpdate == lostUpdates = {}

\* the wait the retry loop takes before its k-th retry when the rejected
\* call carried the given headers
WaitBeforeRetry(k, headers) ==
    IF headers.present /\ headers.retryAfter # Undefined
    THEN headers.retryAfter * 1000
    ELSE InitialRetryDelay * (2 ^ (k - 1))

\* C25: a Claude provider call rejected with status 429 is retried at most 3
\* times (4 calls), each retry after the rate-limit state was updated from
\* the error headers and after a wait of retry-after seconds when the header
\* is present and otherwise of a delay of 2000 ms doubled after every retry;
\* a call rejected with another status is not retried
C25_RateLimitRetries ==
    \A r \in DOMAIN claudeRuns :
        LET run == claudeRuns[r]
            rejection == run.rejection
        IN /\ run.calls <= ClaudeMaxRetries + 1
           /\ run.calls <= run.retryCount + 1
           /\ run.retryCount > ClaudeMaxRetries =>
                 run.pc = "failed" /\ run.status = 429
           /\ run.retryCount > 0 =>
                 /\ rejection.headers.present =>
                       /\ rejection.info.remainingTokens = rejection.headers.remaining
                       /\ rejection.info.resetTime = rejection.headers.reset
                 /\ run.pc = "retryWait" =>
                       run.wakeAt = rejection.at +
                           WaitBeforeRetry(run.retryCount, rejection.headers)
                 /\ (run.calls = run.retryCount + 1 /\ run.status # 429) =>
                       clock >= rejection.at +
                           WaitBeforeRetry(run.retryCount, rejection.headers)
           /\ run.status = 500 =>
                 run.pc = "failed" /\ run.calls = run.retryCount + 1

\* the fourth call of a run is rejected with status 429 and the error is
\* thrown; the run's first call was issued at time 1, its first retry waited
\* for retry-after and its third for the delay doubled twice
C25_Witness ==
    \E r \in DOMAIN claudeRuns :
        /\ claudeRuns[r].pc = "failed"
        /\ claudeRuns[r].status = 429
        /\ claudeRuns[r].calls = ClaudeMaxRetries + 1
        /\ claudeRuns[r].retryCount = ClaudeMaxRetries + 1
        /\ claudeRuns[r].wakeAt =
              1 + RetryAfterS * 1000 + 2 * InitialRetryDelay + 4 * InitialRetryDelay
        /\ claudeRuns[r].rejection.headers.present
        /\ rateLimitInfo = claudeRuns[r].rejection.info

\* C38: clear() resumes every waitUntilReset() promise pending at that moment,
\* also when several callers wait at once: right after a clear() no promise
\* is pending
C38_ClearResumesAll ==
    lastCall = "clear" => \A i \in 1..Len(promises) : promises[i].state # "pending"

\* C37: within one runWithTimeoutAndRetry call at most one invocation of the
\* operation is outstanding at any time, also after an attempt that ended by
\* timeout
C37_OneOutstanding == outstanding <= 1

\* C33: a successful Claude call that reports the input usage u leaves the
\* shared remaining budget lower by exactly u than it was before the pacing
\* step of that call; stated for the first run to act, with no 429 response:
\* the budget before its pacing step is the initial one
C33_UsageReplacesEstimate ==
    \A r \in DOMAIN claudeRuns :
        (/\ claudeRuns[r].pc = "responded"
         /\ claudeRuns[r].usage # 0
         /\ claudeRuns[r].retryCount = 0
         /\ \A q \in DOMAIN claudeRuns \ {r} : claudeRuns[q].pc = "start") =>
            rateLimitInfo.remainingTokens = DefaultTokens - claudeRuns[r].usage

\* C36: the remaining-token count of the shared rate-limit state is never
\* negative and never above its default of 20000
C36_RemainingInRange ==
    /\ rateLimitInfo.remainingTokens >= 0
    /\ rateLimitInfo.remainingTokens <= DefaultTokens

\* C34: in the addedMessages a run returns, whatever ended it, every
\* ToolCallMessage is matched by exactly one ToolResultMessage with the same
\* call id that stands later in the list
C34_CallsHaveResults ==
    pc = "done" =>
        LET msgs == result.addedMessages
        IN \A i \in 1..Len(msgs) :
               msgs[i].kind = "call" =>
                   Cardinality({j \in (i + 1)..Len(msgs) :
                                   msgs[j].kind = "result" /\ msgs[j].id = msgs[i].id}) = 1

\* the tool calls of an assistant turn of the provider's message list
CallsOfTurn(turn) ==
    CASE adapter = "openai" -> turn.tool_calls
      [] adapter = "google" -> SelectSeq(turn.parts, LAMBDA q : q.kind = "call")
      [] adapter = "claude" -> SelectSeq(turn.content, LAMBDA c : c.type = "tool_use")

\* the message is the tool-result turn of the call
AnswersCall(m, call) ==
    CASE adapter = "openai" -> m.role = "tool" /\ m.tool_call_id = call.id
      [] adapter = "google" ->
           /\ m.role = "function"
           /\ m.parts[1].functionResponse.name = call.name
      [] adapter = "claude" ->
           /\ m.role = "user"
           /\ Len(m.content) = 1
           /\ m.content[1].type = "tool_result"
           /\ m.content[1].tool_use_id = call.id

C34_Witness ==
    /\ pc = "done"
    /\ stopRequested
    /\ Kinds(result.addedMessages) = <<"call", "result", "call", "result">>
    /\ result.addedMessages[1].id = result.addedMessages[2].id
    /\ result.addedMessages[3].id = result.addedMessages[4].id
    /\ result.addedMessages[1].id # result.addedMessages[3].id

\* the field is optional(t), default(t), optional(default(t)) or
\* default(optional(t))
WrapsOf(t) ==
    {ZodOptional(t), ZodDefault(t), ZodOptional(ZodDefault(t)), ZodDefault(ZodOptional(t))}

\* the definition under the optional and default wrappers of a field, at most
\* two of them
Unwrapped(s) ==
    LET once(t) == IF t.typeName \in {"ZodOptional", "ZodDefault"} THEN t.innerType ELSE t
    IN once(once(s))

\* C31: a field that is a string, number, boolean or enum under optional,
\* default, optional(default(.)) or default(optional(.)) is translated to a
\* property with the type of the inner definition and, for an enum, its values
C31_WrapperAnyNesting ==
    Translated =>
        \A i \in 1..Len(parameters.shape) :
            LET field == parameters.shape[i]
                inner == Unwrapped(field)
                prop == translation.schema.properties[i].value
            IN /\ inner.typeName \in {"ZodString", "ZodNumber", "ZodBoolean", "ZodEnum"}
               /\ field \in WrapsOf(inner)
               => IF inner.typeName = "ZodEnum"
                  THEN prop = [type |-> "string", enum |-> inner.values]
                  ELSE prop = [type |-> zodTypeToSchemaType(inner.typeName)]

\* C32: the translation of a tool's parameters ends without raising, whatever
\* the schema tree, a nested object or array under optional or default included
C32_TranslationTotal ==
    translation.done => ~translation.raised

\* C40: generateText called with messages absent or empty builds an empty
\* payload and goes on to the provider call without raising, in every adapter
C40_EmptyConversation ==
    (payload.done /\ (payload.absent \/ conversation = <<>>)) =>
        /\ ~payload.raised
        /\ payload.messages = <<>>

\* C39: every run ends, by returning or raising, when each provider call,
\* tool execution, callback and wait completes; it issues at most
\* maxToolRoundtrips + 1 provider calls that are answered and retries a call
\* answered 429 at most maxRetries times, whatever the model keeps requesting
C39_RunTerminates ==
    /\ <>(pc \in {"done", "raised"})
    /\ [](providerCalls <= Budget + 1 /\ retryCount <= ClaudeMaxRetries + 1)

\* C39 witness: a run in which every response asked for a registered tool
\* has ended once the budget was used up
C39_Witness ==
    /\ pc = "done"
    /\ adapter = "openai"
    /\ maxToolRoundtrips = MaxRoundtrips
    /\ providerCalls = MaxRoundtrips + 1
    /\ Len(responses) = providerCalls
    /\ \A k \in 1..Len(responses) : responses[k] = "call"
    /\ ~stopRequested

====
